---- MODULE Spec2Model ----
(***************************************************************************)
(* A model of the SCTE-35 splice_info_section decoder of scte35/scte35.py. *)
(*                                                                         *)
(* The decoder is a pure function of its input bytes.  Every from_bytes    *)
(* classmethod is an operator that threads a cursor through the reads in   *)
(* the order of the source, one statement per step; an exception is the    *)
(* cursor's err field, and every step after a raised exception is skipped, *)
(* as in Python.  The cursor keeps the local variables of the method (loc),*)
(* the object under construction (obj) and a log of the reads performed    *)
(* (field name, absolute bit offset in the input, width), which the        *)
(* properties refer to.                                                    *)
(*                                                                         *)
(* Integers wider than 31 bits (33-bit PTS values, 40-bit durations, the   *)
(* 32-bit identifiers) are kept as the pair <<hi, lo>> with lo the low 16  *)
(* bits: value = hi * 65536 + lo.                                          *)
(***************************************************************************)
EXTENDS Integers, Sequences, FiniteSets, TLC

VARIABLES
    input,      \* the byte sequence handed to SpliceInfoSection.from_bytes
    result,     \* outcome of from_bytes(input): [err, val, log], or Pending
    orig,       \* the buffer `input` was derived from, with how
    origResult, \* outcome of from_bytes on that buffer
    peer,       \* a second buffer and the outcome of from_bytes on it
    cmp,        \* outcomes of == and != between the two sections, both ways
    desc,       \* a SegmentationDescriptor, decoded or constructed, or Pending
    got         \* the last accessor read on desc: its name and outcome

vars == <<input, result, orig, origResult, peer, cmp, desc, got>>

----------------------------------------------------------------------------
(* Python values *)

None == <<>>
Some(v) == <<v>>
NoError == "none"

\* F applied to the value of e, e being evaluated once
Force(e, F(_)) == CHOOSE r \in {F(x) : x \in {e}} : TRUE

----------------------------------------------------------------------------
(* bitstring.BitStream: a window [off, off+len) of bits over a byte        *)
(* sequence, read with a cursor.                                           *)

BitAt(data, i) == (data[(i \div 8) + 1] \div (2 ^ (7 - (i % 8)))) % 2

RECURSIVE uint(_, _, _)
uint(data, off, n) ==
    IF n = 0 THEN 0 ELSE 2 * uint(data, off, n - 1) + BitAt(data, off + n - 1)

wide(data, off, n) == <<uint(data, off, n - 16), uint(data, off + n - 16, 16)>>

bytes(data, off, n) == [i \in 1..n |-> uint(data, off + 8 * (i - 1), 8)]

BitString(data) == [data |-> data, off |-> 0, len |-> 8 * Len(data)]

\* the state of a from_bytes call that was handed the BitStream bs
Cursor(bs, log) ==
    [bs |-> bs, pos |-> 0, err |-> NoError, log |-> log, val |-> 0,
     loc |-> [input_bytes |-> bs], obj |-> None]

ok(c) == c.err = NoError

\* the next statement, S, unless an exception is propagating
then(c0, S(_)) == Force(c0, LAMBDA c : IF c.err # NoError THEN c ELSE S(c))

\* `name = bs.read(...)`: n bits consumed, v their value, or ReadError
Read(c, name, n, v) ==
    IF n > c.bs.len - c.pos THEN [c EXCEPT !.err = "ReadError"]
    ELSE [c EXCEPT !.pos = @ + n,
                   !.log = Append(@, [field |-> name, at |-> c.bs.off + c.pos,
                                      bits |-> n]),
                   !.val = v,
                   !.loc = (name :> v) @@ @]

\* BitStream.read('uint:n'), n <= 24
read_uint(c, name, n) == Read(c, name, n, uint(c.bs.data, c.bs.off + c.pos, n))

\* BitStream.read('uint:n'), n > 24
read_wide(c, name, n) == Read(c, name, n, wide(c.bs.data, c.bs.off + c.pos, n))

\* BitStream.read('bool')
read_bool(c, name) == Read(c, name, 1, BitAt(c.bs.data, c.bs.off + c.pos) = 1)

\* fault: a slice that stops at the end of the stream, as bs[pos:pos + n] does
read_bits_clamped(c, name, n) ==
    LET m == IF n > c.bs.len - c.pos THEN c.bs.len - c.pos ELSE n
    IN  Read(c, name, m, [data |-> c.bs.data, off |-> c.bs.off + c.pos, len |-> m])

\* BitStream.read(n): the next n bits as a new BitStream
read_bits(c, name, n) ==
    Read(c, name, n, [data |-> c.bs.data, off |-> c.bs.off + c.pos, len |-> n])

\* fault: a string that stops half a byte short
read_bytes_short(c, name, n) ==
    Read(c, name, IF n = 0 THEN 0 ELSE 8 * n - 4, bytes(c.bs.data, c.bs.off + c.pos, n))

\* BitStream.read('bytes:n')
read_bytes(c, name, n) == Read(c, name, 8 * n, bytes(c.bs.data, c.bs.off + c.pos, n))

\* the content of a BitStream of whole bytes (what == on BitStreams compares)
content(bs) == bytes(bs.data, bs.off, bs.len \div 8)

\* fault: the check left out
unchecked(c, cond, exc) == c

\* `if not cond: raise exc`
raise_unless(c, cond, exc) == IF cond THEN c ELSE [c EXCEPT !.err = exc]

\* `raise exc`
raise(c, exc) == [c EXCEPT !.err = exc]

\* `x = Class(...)`: the object under construction
new(c, object) == [c EXCEPT !.obj = object]

\* `x._attr = value`
setattr(c, attr, value) == [c EXCEPT !.obj.dict = (attr :> value) @@ @]

\* fault: the exception let through
unhandled(c0, exc) == c0

\* `except exc: pass` around the statements that led to c0
except_pass(c0, exc) ==
    Force(c0, LAMBDA c : IF c.err = exc THEN [c EXCEPT !.err = NoError] ELSE c)

\* fault: no handler around the statements that led to c0
uncaught(c0, exc, as) == c0

\* `except exc: raise other()` around the statements that led to c0
except_raise(c0, exc, as) ==
    Force(c0, LAMBDA c : IF c.err = exc THEN [c EXCEPT !.err = as] ELSE c)

\* fault: a slice that has to take the rest of the stream it is cut from
open_whole(c) ==
    IF c.pos < c.bs.len THEN [c EXCEPT !.err = "SectionParsingErrorException"]
    ELSE [c EXCEPT !.bs = c.val, !.pos = 0]

\* fault: a slice that runs on to the end of the input
open_unbounded(c) ==
    [c EXCEPT !.bs = [data |-> c.val.data, off |-> c.val.off,
                      len |-> 8 * Len(c.val.data) - c.val.off],
              !.pos = 0]

\* a cursor over the BitStream c.val, for the same method
open(c) == [c EXCEPT !.bs = c.val, !.pos = 0]

\* what a from_bytes call hands back: the exception or the returned object,
\* and the log
return(c0, value(_)) ==
    Force(c0, LAMBDA c : [err |-> c.err,
                          val |-> IF c.err = NoError THEN value(c) ELSE None,
                          log |-> c.log])

\* `name = Callee.from_bytes(...)`, the call having ended as r0
call(c, name, r0) ==
    Force(r0, LAMBDA r :
        IF r.err # NoError THEN [c EXCEPT !.err = r.err, !.log = r.log]
        ELSE [c EXCEPT !.log = r.log, !.val = r.val, !.loc = (name :> r.val) @@ @])

----------------------------------------------------------------------------
(* Constants and enumerations *)

SPLICE_INFO_SECTION_TABLE_ID == 252
CUEI_IDENTIFIER == <<17237, 17737>>     \* 0x4355 0x4549, ASCII "CUEI"

SegmentationType ==
    {0, 1} \cup (16..25) \cup (32..35) \cup (48..55) \cup {64, 65, 80, 81}
PROVIDER_PLACEMENT_OPPORTUNITY_START == 52
PROVIDER_PLACEMENT_OPPORTUNITY_END == 53

SPLICE_NULL == 0
SPLICE_SCHEDULE == 4
SPLICE_INSERT == 5
TIME_SIGNAL == 6
BANDWIDTH_RESERVATION == 7
PRIVATE_COMMAND == 255
SpliceCommandType ==
    {SPLICE_NULL, SPLICE_SCHEDULE, SPLICE_INSERT, TIME_SIGNAL,
     BANDWIDTH_RESERVATION, PRIVATE_COMMAND}

AVAIL_DESCRIPTOR == 0
DTMF_DESCRIPTOR == 1
SEGMENTATION_DESCRIPTOR == 2
TIME_DESCRIPTOR == 3
SpliceDescriptorType ==
    {AVAIL_DESCRIPTOR, DTMF_DESCRIPTOR, SEGMENTATION_DESCRIPTOR, TIME_DESCRIPTOR}

SegmentationUpidType == 0..15

\* fault: a lookup that lets unknown values through
enum_unchecked(c, members) == c

\* Enum(c.val): the member, or ValueError when the value is no member
enum(c, members) == raise_unless(c, c.val \in members, "ValueError")

----------------------------------------------------------------------------
(* TimeSignal *)

TimeSignal(immediate, pts_time) ==
    [class |-> "TimeSignal",
     dict |-> [_immediate |-> immediate, _pts_time |-> pts_time]]

\* fault: a time_signal with a pts_time marked immediate
TimeSpecifiedImmediate(c0) ==
    LET reserved == then(c0, LAMBDA c : read_uint(c, "reserved", 6))
        checked == then(reserved, LAMBDA c :
                        raise_unless(c, c.val = 63, "ReservedBitsException"))
        pts_time == then(checked, LAMBDA c : read_wide(c, "pts_time", 33))
    IN  then(pts_time, LAMBDA c : new(c, TimeSignal(TRUE, Some(c.val))))

\* lines 162-166: the branch of a set time_specified_flag
TimeSpecified(c0) ==
    LET reserved == then(c0, LAMBDA c : read_uint(c, "reserved", 6))
        checked == then(reserved, LAMBDA c :
                        raise_unless(c, c.val = 63, "ReservedBitsException"))
        pts_time == then(checked, LAMBDA c : read_wide(c, "pts_time", 33))
    IN  then(pts_time, LAMBDA c : new(c, TimeSignal(FALSE, Some(c.val))))

TimeSignal_from_bytes(input_bytes, log) ==
    LET time_specified_flag ==
            then(Cursor(input_bytes, log), LAMBDA c :
                 read_bool(c, "time_specified_flag"))
        command == then(time_specified_flag, LAMBDA c :
                        IF c.val THEN TimeSpecified(c)
                        ELSE new(c, TimeSignal(TRUE, None)))
    IN  return(command, LAMBDA c : c.obj)

----------------------------------------------------------------------------
(* AvailDescriptor, DtmfDescriptor *)

AvailDescriptor(provider_avail_id) ==
    [class |-> "AvailDescriptor",
     dict |-> [_provider_avail_id |-> provider_avail_id]]

\* fault: an identifier read and not looked at
DescriptorIdentifierUnchecked(input_bytes, log) ==
    then(Cursor(input_bytes, log), LAMBDA c : read_wide(c, "descriptor_identifier", 32))

\* lines 219-221, 268-270, 486-488: the identifier every descriptor opens with
DescriptorIdentifier(input_bytes, log) ==
    LET descriptor_identifier ==
            then(Cursor(input_bytes, log), LAMBDA c :
                 read_wide(c, "descriptor_identifier", 32))
    IN  then(descriptor_identifier, LAMBDA c :
             raise_unless(c, c.val = CUEI_IDENTIFIER, "Exception"))

AvailDescriptor_from_bytes(input_bytes, log) ==
    LET provider_avail_id ==
            then(DescriptorIdentifier(input_bytes, log), LAMBDA c :
                 read_wide(c, "provider_avail_id", 32))
        descriptor == then(provider_avail_id, LAMBDA c :
                           new(c, AvailDescriptor(c.val)))
    IN  return(descriptor, LAMBDA c : c.obj)

DtmfDescriptor(preroll, dtmf_string) ==
    [class |-> "DtmfDescriptor",
     dict |-> [_preroll |-> preroll, _dtmf_string |-> dtmf_string]]

DtmfDescriptor_from_bytes(input_bytes, log) ==
    LET preroll == then(DescriptorIdentifier(input_bytes, log), LAMBDA c :
                        read_uint(c, "preroll", 8))
        dtmf_count == then(preroll, LAMBDA c : read_uint(c, "dtmf_count", 3))
        reserved == then(dtmf_count, LAMBDA c : read_uint(c, "reserved", 5))
        checked == then(reserved, LAMBDA c :
                        raise_unless(c, c.val = 31, "ReservedBitsException"))
        dtmf_string == then(checked, LAMBDA c :
                            read_bytes(c, "dtmf_string", c.loc["dtmf_count"]))
        descriptor == then(dtmf_string, LAMBDA c :
                           new(c, DtmfDescriptor(c.loc["preroll"], c.val)))
    IN  return(descriptor, LAMBDA c : c.obj)

----------------------------------------------------------------------------
(* SegmentationDescriptor *)

\* __init__: the instance attributes
SegmentationDescriptor(id, cancel, psf, sdf, dnr, web, blackout, archive, device) ==
    [class |-> "SegmentationDescriptor",
     dict |->
        [_segmentation_event_id |-> id,
         _segmentation_event_cancel_indicator |-> cancel,
         _program_segmentation_flag |-> psf,
         _segmentation_duration_flag |-> sdf,
         _delivery_not_restricted_flag |-> dnr,
         _web_delivery_allowed_flag |-> web,
         _no_regional_blackout_flag |-> blackout,
         _archive_allowed_flag |-> archive,
         _device_restrictions |-> device,
         _components |-> <<>>,
         _segmentation_duration |-> <<0, 0>>,
         _segmentation_upid_type |-> None,
         _segmentation_upid_bytes |-> None,
         _segmentation_type |-> None]]

\* cls(segmentation_event_id, segmentation_event_cancel_indicator): the other
\* parameters take the defaults of the signature
SegmentationDescriptorDefaults(id, cancel) ==
    SegmentationDescriptor(id, cancel, FALSE, FALSE, FALSE, FALSE, FALSE, FALSE, 0)

\* `descriptor._attr = input_bytes.read('bool')`
read_flag(c0, attr, name) ==
    then(then(c0, LAMBDA c : read_bool(c, name)), LAMBDA c : setattr(c, attr, c.val))

\* `descriptor._attr = input_bytes.read('uint:n')`
read_attr(c0, attr, name, n) ==
    then(then(c0, LAMBDA c : read_uint(c, name, n)), LAMBDA c : setattr(c, attr, c.val))

\* lines 513-519: one component
Component(c0) ==
    LET tag == then(c0, LAMBDA c : read_uint(c, "tag", 8))
        reserved == then(tag, LAMBDA c : read_uint(c, "reserved", 7))
        checked == then(reserved, LAMBDA c :
                        raise_unless(c, c.val = 127, "ReservedBitsException"))
        pts_offset == then(checked, LAMBDA c : read_wide(c, "pts_offset", 33))
    IN  then(pts_offset, LAMBDA c :
             setattr(c, "_components",
                     Append(c.obj.dict["_components"],
                            [tag |-> c.loc["tag"], pts_offset |-> c.val])))

\* fault: a loop that goes round once more than it was told
RECURSIVE ComponentLoopOnceMore(_, _)
ComponentLoopOnceMore(c0, left) ==
    Force(c0, LAMBDA c :
        IF left < 0 \/ ~ok(c) THEN c ELSE ComponentLoopOnceMore(Component(c), left - 1))

\* `for i in range(component_count)`, with left iterations to go
RECURSIVE ComponentLoop(_, _)
ComponentLoop(c0, left) ==
    Force(c0, LAMBDA c :
        IF left = 0 \/ ~ok(c) THEN c ELSE ComponentLoop(Component(c), left - 1))

\* lines 499-507: the restrictions, or the reserved bits in their place
DeliveryRestrictions(c0) ==
    then(c0, LAMBDA d :
        IF ~d.obj.dict["_delivery_not_restricted_flag"]
        THEN LET web == read_flag(d, "_web_delivery_allowed_flag",
                                  "web_delivery_allowed_flag")
                 blackout == read_flag(web, "_no_regional_blackout_flag",
                                       "no_regional_blackout_flag")
                 archive == read_flag(blackout, "_archive_allowed_flag",
                                      "archive_allowed_flag")
             IN  read_attr(archive, "_device_restrictions", "device_restrictions", 2)
        ELSE then(then(d, LAMBDA c : read_uint(c, "reserved", 5)), LAMBDA c :
                  raise_unless(c, c.val = 31, "ReservedBitsException")))

\* lines 508-519: the components
Components(c0) ==
    then(c0, LAMBDA d :
        IF ~d.obj.dict["_program_segmentation_flag"]
        THEN then(then(d, LAMBDA c : read_uint(c, "component_count", 8)), LAMBDA c :
                  IF c.val > 0
                  THEN ComponentLoop(setattr(c, "_components", <<>>), c.val)
                  ELSE c)
        ELSE d)

\* fault: a duration of 32 bits
DurationOf32Bits(c0) ==
    then(c0, LAMBDA d :
        IF d.obj.dict["_segmentation_duration_flag"]
        THEN then(then(d, LAMBDA c : read_wide(c, "segmentation_duration", 32)),
                  LAMBDA c : setattr(c, "_segmentation_duration", c.val))
        ELSE d)

\* lines 521-522: the duration
Duration(c0) ==
    then(c0, LAMBDA d :
        IF d.obj.dict["_segmentation_duration_flag"]
        THEN then(then(d, LAMBDA c : read_wide(c, "segmentation_duration", 40)),
                  LAMBDA c : setattr(c, "_segmentation_duration", c.val))
        ELSE d)

\* lines 524-530: UPID, type, segment numbers
UpidAndType(c0) ==
    LET upid_type == then(c0, LAMBDA c : read_uint(c, "segmentation_upid_type", 8))
        segmentation_upid_type ==
            then(then(upid_type, LAMBDA c : enum(c, SegmentationUpidType)), LAMBDA c :
                 setattr(c, "_segmentation_upid_type", Some(c.val)))
        segmentation_upid_length ==
            then(segmentation_upid_type, LAMBDA c :
                 read_uint(c, "segmentation_upid_length", 8))
        upid_bytes == then(segmentation_upid_length, LAMBDA c :
                           read_bits(c, "segmentation_upid_bytes", c.val * 8))
        segmentation_upid_bytes ==
            then(upid_bytes, LAMBDA c :
                 setattr(c, "_segmentation_upid_bytes", Some(content(c.val))))
        type == then(segmentation_upid_bytes, LAMBDA c :
                     read_uint(c, "segmentation_type", 8))
        segmentation_type ==
            then(then(type, LAMBDA c : enum(c, SegmentationType)), LAMBDA c :
                 setattr(c, "_segmentation_type", Some(c.val)))
        segment_num == read_attr(segmentation_type, "_segment_num", "segment_num", 8)
    IN  read_attr(segment_num, "_segments_expected", "segments_expected", 8)

\* lines 532-538: the sub-segment numbers of a placement opportunity
SubSegments(c0) ==
    then(c0, LAMBDA d :
        IF d.loc["segmentation_type"] \in {PROVIDER_PLACEMENT_OPPORTUNITY_START,
                                           PROVIDER_PLACEMENT_OPPORTUNITY_END}
        THEN LET sub_segment_num ==
                     read_attr(d, "_sub_segment_num", "sub_segment_num", 8)
                 sub_segments_expected ==
                     read_attr(sub_segment_num, "_sub_segments_expected",
                               "sub_segments_expected", 8)
             IN  except_pass(sub_segments_expected, "ReadError")
        ELSE d)

\* lines 496-538: the body of a descriptor that is not cancelled
NotCancelled(c0) ==
    LET program_segmentation_flag ==
            read_flag(c0, "_program_segmentation_flag", "program_segmentation_flag")
        segmentation_duration_flag ==
            read_flag(program_segmentation_flag, "_segmentation_duration_flag",
                      "segmentation_duration_flag")
        delivery_not_restricted_flag ==
            read_flag(segmentation_duration_flag, "_delivery_not_restricted_flag",
                      "delivery_not_restricted_flag")
    IN  SubSegments(UpidAndType(Duration(Components(
            DeliveryRestrictions(delivery_not_restricted_flag)))))

SegmentationDescriptor_from_bytes(input_bytes, log) ==
    LET segmentation_event_id ==
            then(DescriptorIdentifier(input_bytes, log), LAMBDA c :
                 read_wide(c, "segmentation_event_id", 32))
        segmentation_event_cancel_indicator ==
            then(segmentation_event_id, LAMBDA c :
                 read_bool(c, "segmentation_event_cancel_indicator"))
        reserved == then(segmentation_event_cancel_indicator, LAMBDA c :
                         read_uint(c, "reserved", 7))
        checked == then(reserved, LAMBDA c :
                        raise_unless(c, c.val = 127, "ReservedBitsException"))
        descriptor ==
            then(checked, LAMBDA c :
                 new(c, SegmentationDescriptorDefaults(
                            c.loc["segmentation_event_id"],
                            c.loc["segmentation_event_cancel_indicator"])))
        body == then(descriptor, LAMBDA c :
                     IF ~c.loc["segmentation_event_cancel_indicator"]
                     THEN NotCancelled(c) ELSE c)
    IN  return(body, LAMBDA c : c.obj)

----------------------------------------------------------------------------
(* SpliceInfoSection *)

SpliceInfoSection(pts_adjustment, tier, splice_command_type) ==
    [class |-> "SpliceInfoSection",
     dict |-> [_pts_adjustment |-> pts_adjustment,
               _tier |-> tier,
               _splice_command_type |-> splice_command_type,
               _splice_command |-> None,
               _descriptors |-> <<>>]]

\* fault: a time_descriptor passed over without a word
DescriptorDispatchSkipping(c) ==
    LET splice_descriptor_tag == c.loc["splice_descriptor_tag"]
        descriptor_bitarray == c.loc["descriptor_bitarray"]
    IN  CASE splice_descriptor_tag = AVAIL_DESCRIPTOR ->
                call(c, "descriptor",
                     AvailDescriptor_from_bytes(descriptor_bitarray, c.log))
          [] splice_descriptor_tag = DTMF_DESCRIPTOR ->
                call(c, "descriptor",
                     DtmfDescriptor_from_bytes(descriptor_bitarray, c.log))
          [] splice_descriptor_tag = SEGMENTATION_DESCRIPTOR ->
                call(c, "descriptor",
                     SegmentationDescriptor_from_bytes(descriptor_bitarray, c.log))
          [] splice_descriptor_tag = TIME_DESCRIPTOR -> c

\* lines 698-705: the decoder the tag selects, on the descriptor's own slice
DescriptorDispatch(c) ==
    LET splice_descriptor_tag == c.loc["splice_descriptor_tag"]
        descriptor_bitarray == c.loc["descriptor_bitarray"]
    IN  CASE splice_descriptor_tag = AVAIL_DESCRIPTOR ->
                call(c, "descriptor",
                     AvailDescriptor_from_bytes(descriptor_bitarray, c.log))
          [] splice_descriptor_tag = DTMF_DESCRIPTOR ->
                call(c, "descriptor",
                     DtmfDescriptor_from_bytes(descriptor_bitarray, c.log))
          [] splice_descriptor_tag = SEGMENTATION_DESCRIPTOR ->
                call(c, "descriptor",
                     SegmentationDescriptor_from_bytes(descriptor_bitarray, c.log))
          [] splice_descriptor_tag = TIME_DESCRIPTOR ->
                raise(c, "NotImplementedException")

\* fault: each descriptor put ahead of those decoded before it
DescriptorLoopBodyPrepending(c0) ==
    LET tag == then(c0, LAMBDA c : read_uint(c, "splice_descriptor_tag", 8))
        splice_descriptor_tag == then(tag, LAMBDA c : enum(c, SpliceDescriptorType))
        descriptor_length ==
            then(splice_descriptor_tag, LAMBDA c : read_uint(c, "descriptor_length", 8))
        descriptor_bitarray ==
            then(descriptor_length, LAMBDA c :
                 read_bits(c, "descriptor_bitarray", c.val * 8))
        descriptor == then(descriptor_bitarray, LAMBDA c : DescriptorDispatch(c))
    IN  then(descriptor, LAMBDA c :
             setattr(c, "_descriptors", <<c.val>> \o c.obj.dict["_descriptors"]))

\* fault: the loop resumed where the descriptor's decoder stopped reading
DescriptorLoopBodyResuming(c0) ==
    LET tag == then(c0, LAMBDA c : read_uint(c, "splice_descriptor_tag", 8))
        splice_descriptor_tag == then(tag, LAMBDA c : enum(c, SpliceDescriptorType))
        descriptor_length ==
            then(splice_descriptor_tag, LAMBDA c : read_uint(c, "descriptor_length", 8))
        descriptor_bitarray ==
            then(descriptor_length, LAMBDA c :
                 read_bits(c, "descriptor_bitarray", c.val * 8))
        descriptor == then(descriptor_bitarray, LAMBDA c : DescriptorDispatch(c))
        resumed == then(descriptor, LAMBDA c :
                        [c EXCEPT !.pos = c.log[Len(c.log)].at + c.log[Len(c.log)].bits
                                              - c.bs.off])
    IN  then(resumed, LAMBDA c :
             setattr(c, "_descriptors", Append(c.obj.dict["_descriptors"], c.val)))

\* lines 694-705: one iteration of the descriptor loop
DescriptorLoopBody(c0) ==
    LET tag == then(c0, LAMBDA c : read_uint(c, "splice_descriptor_tag", 8))
        splice_descriptor_tag == then(tag, LAMBDA c : enum(c, SpliceDescriptorType))
        descriptor_length ==
            then(splice_descriptor_tag, LAMBDA c : read_uint(c, "descriptor_length", 8))
        descriptor_bitarray ==
            then(descriptor_length, LAMBDA c :
                 read_bits(c, "descriptor_bitarray", c.val * 8))
        descriptor == then(descriptor_bitarray, LAMBDA c : DescriptorDispatch(c))
    IN  then(descriptor, LAMBDA c :
             setattr(c, "_descriptors", Append(c.obj.dict["_descriptors"], c.val)))

\* fault: a loop that stops at the first descriptor it cannot decode and keeps
\* the descriptors it has
RECURSIVE DescriptorLoopLenient(_)
DescriptorLoopLenient(c0) ==
    Force(c0, LAMBDA c :
        IF ~ok(c) \/ ~(c.pos < c.bs.len) THEN c
        ELSE Force(DescriptorLoopBody(c), LAMBDA b :
                 IF ok(b) THEN DescriptorLoopLenient(b) ELSE c))

\* lines 692-707: `while descriptor_loop_bitarray.bitpos < descriptor_loop_bitarray.len`
RECURSIVE DescriptorLoop(_)
DescriptorLoop(c0) ==
    Force(c0, LAMBDA c :
        IF ~ok(c) \/ ~(c.pos < c.bs.len) THEN c
        ELSE DescriptorLoop(except_raise(DescriptorLoopBody(c), "ReadError",
                                         "SectionParsingErrorException")))

\* fault: a command of another type skipped without a word
CommandSkipped(c) ==
    IF c.loc["splice_command_type"] = TIME_SIGNAL
    THEN then(call(c, "splice_command",
                   TimeSignal_from_bytes(c.loc["splice_command_bitarray"], c.log)),
              LAMBDA d : setattr(d, "_splice_command", Some(d.val)))
    ELSE c

\* lines 676-687: the command decoder the command type selects
CommandDispatch(c) ==
    IF c.loc["splice_command_type"] = TIME_SIGNAL
    THEN then(call(c, "splice_command",
                   TimeSignal_from_bytes(c.loc["splice_command_bitarray"], c.log)),
              LAMBDA d : setattr(d, "_splice_command", Some(d.val)))
    ELSE raise(c, "NotImplementedException")

\* fault: any table id accepted
any_table_id(table_id) == TRUE

\* line 647: the table id of a splice_info_section
valid_table_id(table_id) == table_id = SPLICE_INFO_SECTION_TABLE_ID

\* fault: the reserved bits looked at ahead of the table id
SectionHeaderReservedFirst(input_bytes) ==
    LET table_id == then(Cursor(BitString(input_bytes), <<>>), LAMBDA c :
                         read_uint(c, "table_id", 8))
        section_syntax_indicator ==
            then(table_id, LAMBDA c : read_bool(c, "section_syntax_indicator"))
        private == then(section_syntax_indicator, LAMBDA c : read_bool(c, "private"))
        reserved == then(private, LAMBDA c : read_uint(c, "reserved", 2))
        reserved_checked ==
            then(reserved, LAMBDA c : raise_unless(c, c.val = 3, "ReservedBitsException"))
        table_id_checked ==
            then(reserved_checked, LAMBDA c :
                 raise_unless(c, valid_table_id(c.loc["table_id"]),
                              "InvalidTableIdException"))
        section_length ==
            then(table_id_checked, LAMBDA c : read_uint(c, "section_length", 12))
    IN  then(section_length, LAMBDA c : read_bits(c, "section_bitarray", c.val * 8))

\* lines 645-656: the framing of the section
SectionHeader(input_bytes) ==
    LET table_id == then(Cursor(BitString(input_bytes), <<>>), LAMBDA c :
                         read_uint(c, "table_id", 8))
        table_id_checked ==
            then(table_id, LAMBDA c :
                 raise_unless(c, valid_table_id(c.val), "InvalidTableIdException"))
        section_syntax_indicator ==
            then(table_id_checked, LAMBDA c : read_bool(c, "section_syntax_indicator"))
        private == then(section_syntax_indicator, LAMBDA c : read_bool(c, "private"))
        reserved == then(private, LAMBDA c : read_uint(c, "reserved", 2))
        reserved_checked ==
            then(reserved, LAMBDA c : raise_unless(c, c.val = 3, "ReservedBitsException"))
        section_length ==
            then(reserved_checked, LAMBDA c : read_uint(c, "section_length", 12))
    IN  then(section_length, LAMBDA c : read_bits(c, "section_bitarray", c.val * 8))

\* lines 658-675: the fields ahead of the command, and the command's slice
SectionFields(section_bitarray) ==
    LET protocol_version ==
            then(section_bitarray, LAMBDA c : read_uint(c, "protocol_version", 8))
        encrypted_packet ==
            then(protocol_version, LAMBDA c : read_bool(c, "encrypted_packet"))
        not_encrypted ==
            then(encrypted_packet, LAMBDA c : raise_unless(c, ~c.val, "Exception"))
        encryption_algorithm ==
            then(not_encrypted, LAMBDA c : read_uint(c, "encryption_algorithm", 6))
        pts_adjustment ==
            then(encryption_algorithm, LAMBDA c : read_wide(c, "pts_adjustment", 33))
        cw_index == then(pts_adjustment, LAMBDA c : read_uint(c, "cw_index", 8))
        tier == then(cw_index, LAMBDA c : read_uint(c, "tier", 12))
        splice_command_length ==
            then(tier, LAMBDA c : read_uint(c, "splice_command_length", 12))
        type == then(splice_command_length, LAMBDA c :
                     read_uint(c, "splice_command_type", 8))
        splice_command_type == then(type, LAMBDA c : enum(c, SpliceCommandType))
        section ==
            then(splice_command_type, LAMBDA c :
                 new(c, SpliceInfoSection(c.loc["pts_adjustment"], c.loc["tier"],
                                          c.loc["splice_command_type"])))
    IN  then(section, LAMBDA c :
             read_bits(c, "splice_command_bitarray", c.loc["splice_command_length"] * 8))

SpliceInfoSection_from_bytes(input_bytes) ==
    LET section_bitarray == then(SectionHeader(input_bytes), LAMBDA c : open(c))
        splice_command_bitarray == SectionFields(section_bitarray)
        command == then(splice_command_bitarray, LAMBDA c : CommandDispatch(c))
        descriptor_loop_length ==
            then(command, LAMBDA c : read_uint(c, "descriptor_loop_length", 16))
        descriptor_loop_bitarray ==
            then(descriptor_loop_length, LAMBDA c :
                 read_bits(c, "descriptor_loop_bitarray", c.val * 8))
        section == DescriptorLoop(then(descriptor_loop_bitarray, LAMBDA c : open(c)))
    IN  return(section, LAMBDA c : c.obj)

----------------------------------------------------------------------------
(* HlsCueTag *)

\* lines 721-725: __init__ on a tag whose CUE attribute holds the bytes that
\* from_bytes ended on as r; an exception of from_bytes leaves no object
HlsCueTag_init(r) ==
    IF r.err # NoError THEN [err |-> r.err, val |-> None]
    ELSE [err |-> NoError,
          val |-> [class |-> "HlsCueTag", dict |-> [_splice_info_section |-> r.val]]]

----------------------------------------------------------------------------
(* Comparison.  A comparison ends in "True", "False" or the name of the    *)
(* exception it raised.                                                    *)

\* fault: objects without __eq__, which compare by identity
ne_identity(a, b) == TRUE

\* `a != b` on two commands or two descriptors: __ne__ negates __eq__, which
\* compares the __dict__ of two instances of one class; between classes both
\* sides answer NotImplemented and Python compares identities
ne(a, b) == IF a.class = b.class THEN a.dict # b.dict ELSE TRUE

\* line 611: the length test of __eq__
len_test(self, other) ==
    Len(self.dict["_descriptors"]) # Len(self.dict["_descriptors"])

\* lines 613-616: `for i in range(len(self._descriptors))`, from index i on
RECURSIVE eq_descriptors(_, _, _)
eq_descriptors(self, other, i) ==
    IF i > Len(self.dict["_descriptors"]) THEN "True"
    ELSE IF i > Len(other.dict["_descriptors"]) THEN "IndexError"
    ELSE IF ne(self.dict["_descriptors"][i], other.dict["_descriptors"][i])
         THEN "False"
    ELSE eq_descriptors(self, other, i + 1)

SpliceInfoSection_eq(self, other) ==
    IF self.dict["_pts_adjustment"] # other.dict["_pts_adjustment"] THEN "False"
    ELSE IF self.dict["_tier"] # other.dict["_tier"] THEN "False"
    ELSE IF self.dict["_splice_command_type"] # other.dict["_splice_command_type"]
         THEN "False"
    ELSE IF self.dict["_splice_command"] # other.dict["_splice_command"] THEN "False"
    ELSE IF len_test(self, other) THEN "False"
    ELSE eq_descriptors(self, other, 1)

SpliceInfoSection_ne(self, other) ==
    LET x == SpliceInfoSection_eq(self, other)
    IN  CASE x = "True" -> "False"
          [] x = "False" -> "True"
          [] OTHER -> x

----------------------------------------------------------------------------
(* SegmentationDescriptor accessors.  A read ends in the value or in the   *)
(* name of the exception raised.                                           *)

Returned(v) == [err |-> NoError, val |-> Some(v)]
Raised(exc) == [err |-> exc, val |-> None]

\* the properties of the class behind their names
Properties ==
    {"segmentation_event_id", "segmentation_event_cancel_indicator",
     "program_segmentation_flag", "segmentation_duration_flag",
     "delivery_not_restricted_flag", "web_delivery_allowed_flag",
     "no_regional_blackout_flag", "archive_allowed_flag", "device_restrictions",
     "components", "segmentation_duration", "segmentation_upid_type",
     "segmentation_upid_bytes", "segmentation_type"}

\* `if <test>: raise FieldNotDefinedException() else: return self._attr`, the
\* test being the read t of another property or attribute
unless(t, self, attr) ==
    IF t.err # NoError THEN t
    ELSE IF t.val[1] THEN Raised("FieldNotDefinedException")
    ELSE Returned(self.dict[attr])

cancelled(self) == Returned(self.dict["_segmentation_event_cancel_indicator"])

program_segmentation_flag(self) ==
    unless(cancelled(self), self, "_program_segmentation_flag")

segmentation_duration_flag(self) ==
    unless(cancelled(self), self, "_segmentation_duration_flag")

\* fault: the flag handed out whatever the cancel indicator
delivery_not_restricted_flag_unguarded(self) ==
    Returned(self.dict["_delivery_not_restricted_flag"])

delivery_not_restricted_flag(self) ==
    unless(cancelled(self), self, "_delivery_not_restricted_flag")

segmentation_duration(self) ==
    LET t == segmentation_duration_flag(self)
    IN  IF t.err # NoError THEN t
        ELSE IF t.val[1] THEN Returned(self.dict["_segmentation_duration"])
        ELSE Raised("FieldNotDefinedException")

\* the property called name
property(self, name) ==
    CASE name = "segmentation_event_id" -> Returned(self.dict["_segmentation_event_id"])
      [] name = "segmentation_event_cancel_indicator" -> cancelled(self)
      [] name = "program_segmentation_flag" -> program_segmentation_flag(self)
      [] name = "segmentation_duration_flag" -> segmentation_duration_flag(self)
      [] name = "delivery_not_restricted_flag" -> delivery_not_restricted_flag(self)
      [] name = "web_delivery_allowed_flag" ->
            unless(delivery_not_restricted_flag(self), self, "_web_delivery_allowed_flag")
      [] name = "no_regional_blackout_flag" ->
            unless(delivery_not_restricted_flag(self), self, "_no_regional_blackout_flag")
      [] name = "archive_allowed_flag" ->
            unless(delivery_not_restricted_flag(self), self, "_archive_allowed_flag")
      [] name = "device_restrictions" ->
            unless(delivery_not_restricted_flag(self), self, "_device_restrictions")
      [] name = "components" ->
            unless(program_segmentation_flag(self), self, "_components")
      [] name = "segmentation_duration" -> segmentation_duration(self)
      [] name = "segmentation_upid_type" ->
            unless(cancelled(self), self, "_segmentation_upid_type")
      [] name = "segmentation_upid_bytes" ->
            unless(cancelled(self), self, "_segmentation_upid_bytes")
      [] name = "segmentation_type" ->
            unless(cancelled(self), self, "_segmentation_type")

\* `descriptor.<name>`: a property of the class, else an instance attribute,
\* else AttributeError
getattr(self, name) ==
    IF name \in Properties THEN property(self, name)
    ELSE IF name \in DOMAIN self.dict THEN Returned(self.dict[name])
    ELSE Raised("AttributeError")

----------------------------------------------------------------------------
(* Input buffers.  The wire layout below is that of the sample cues of     *)
(* tests/test_cue_components.py; it only serves to draw the inputs of      *)
(* from_bytes from a bounded family that reaches every branch of the       *)
(* grammar.                                                                *)

MaxDescriptors == 2     \* descriptors in a generated descriptor loop
MaxComponents == 1      \* components in a generated segmentation descriptor
MaxUpidLen == 1         \* UPID bytes in a generated segmentation descriptor
MaxDtmf == 1            \* DTMF digits in a generated DTMF descriptor

Bit(b) == IF b THEN 1 ELSE 0
Fill(n, v) == [i \in 1..n |-> v]

CUEI == <<67, 85, 69, 73>>
EventId == <<166, 250, 254, 155>>

DescriptorWire(tag, body) == <<tag, Len(body)>> \o body

AvailBody == CUEI \o <<0, 0, 1, 53>>

DtmfBody(count) == CUEI \o <<25, count * 32 + 31>> \o Fill(count, 42)

ComponentWire(i) == <<i, 254, 0, 0, 16, i>>

RECURSIVE ComponentsWire(_)
ComponentsWire(n) == IF n = 0 THEN <<>> ELSE ComponentsWire(n - 1) \o ComponentWire(n)

\* a segmentation_descriptor body honoring the flags given; nsub is the number
\* of trailing sub_segment bytes present (0..2)
SegmentationBody(cancel, psf, sdf, dnr, ncomp, nupid, type, nsub) ==
    CUEI \o EventId \o <<Bit(cancel) * 128 + 127>> \o
    (IF cancel THEN <<>>
     ELSE <<Bit(psf) * 128 + Bit(sdf) * 64 + Bit(dnr) * 32 + (IF dnr THEN 31 ELSE 22)>>
          \o (IF psf THEN <<>> ELSE <<ncomp>> \o ComponentsWire(ncomp))
          \o (IF sdf THEN <<0, 1, 135, 134, 129>> ELSE <<>>)
          \o <<8, nupid>> \o Fill(nupid, 5)
          \o <<type, 2, 3>> \o Fill(nsub, 1))

\* the descriptors the generated loops are cut from, cyclically
Catalogue ==
    << DescriptorWire(SEGMENTATION_DESCRIPTOR,
           SegmentationBody(FALSE, TRUE, TRUE, TRUE, 0, MaxUpidLen,
                            PROVIDER_PLACEMENT_OPPORTUNITY_START, 2)),
       DescriptorWire(AVAIL_DESCRIPTOR, AvailBody),
       DescriptorWire(SEGMENTATION_DESCRIPTOR,
           SegmentationBody(FALSE, FALSE, FALSE, FALSE, MaxComponents, 0, 16, 0)),
       DescriptorWire(DTMF_DESCRIPTOR, DtmfBody(MaxDtmf)),
       DescriptorWire(SEGMENTATION_DESCRIPTOR,
           SegmentationBody(TRUE, FALSE, FALSE, FALSE, 0, 0, 0, 0)),
       DescriptorWire(SEGMENTATION_DESCRIPTOR,
           SegmentationBody(FALSE, TRUE, FALSE, TRUE, 0, 0,
                            PROVIDER_PLACEMENT_OPPORTUNITY_END, 0)) >>

RECURSIVE Window(_, _)
Window(start, n) ==
    IF n = 0 THEN <<>>
    ELSE Catalogue[start] \o Window((start % Len(Catalogue)) + 1, n - 1)

DescriptorLoops ==
    {Window(s, n) : s \in 1..Len(Catalogue), n \in 0..MaxDescriptors}

TimeSignalBodies == { <<127>>, <<254, 153, 95, 94, 55>> }

\* a splice_info_section: the command declares cmdlen bytes, whatever it holds
SectionWire(cmdtype, cmdlen, cmd, loop, trailer) ==
    LET section ==
            <<0, 0, 250, 139, 189, 205, 255, 255, 240 + (cmdlen \div 256),
              cmdlen % 256, cmdtype>>
            \o cmd \o <<Len(loop) \div 256, Len(loop) % 256>> \o loop \o trailer
    IN  <<252, 48 + (Len(section) \div 256), Len(section) % 256>> \o section

Crc == <<55, 127, 32, 53>>

\* well-formed time_signal sections
WellFormed ==
    {SectionWire(TIME_SIGNAL, Len(cmd), cmd, loop, <<>>) :
        cmd \in TimeSignalBodies, loop \in DescriptorLoops}
    \cup {SectionWire(TIME_SIGNAL, 1, <<127>>, Window(1, 1), Crc)}

\* sections of every command type, known or not, the command length honest or
\* the all-ones value
OtherCommands ==
    {SectionWire(t, n, <<127>>, <<>>, <<>>) :
        t \in SpliceCommandType \cup {153}, n \in {1, 4095}}

\* a loop that opens with a time_descriptor, which the decoder does not implement
TimeDescriptors ==
    {SectionWire(TIME_SIGNAL, 1, <<127>>,
                 DescriptorWire(TIME_DESCRIPTOR, CUEI \o <<0, 0, 1, 53>>) \o Window(2, n),
                 <<>>) : n \in 0..1}

\* descriptors that declare more bytes than their decoder reads: an avail
\* descriptor and a cancelled segmentation descriptor, ahead of another one
Padded ==
    {SectionWire(TIME_SIGNAL, 1, <<127>>,
                 DescriptorWire(AVAIL_DESCRIPTOR, AvailBody \o <<9, 9>>) \o Window(4, n),
                 <<>>) : n \in 0..1}
    \cup {SectionWire(TIME_SIGNAL, 1, <<127>>,
                      DescriptorWire(SEGMENTATION_DESCRIPTOR,
                          SegmentationBody(TRUE, FALSE, FALSE, FALSE, 0, 0, 0, 0)
                              \o <<9>>) \o Window(2, 1),
                      <<>>)}

\* a section_length one byte short of the section that follows it
Understated ==
    {[buf EXCEPT ![3] = @ - 1] :
        buf \in {SectionWire(TIME_SIGNAL, 1, <<127>>, Window(1, 1), <<>>)}}

\* a section followed by a stuffing byte that section_length does not count
Stuffed == {SectionWire(TIME_SIGNAL, 1, <<127>>, Window(1, 1), <<>>) \o <<255>>}

BaseInputs ==
    WellFormed \cup OtherCommands \cup TimeDescriptors \cup Padded \cup Understated \cup Stuffed

----------------------------------------------------------------------------
(* The decode scenario: a buffer is decoded; then one bit of it is         *)
(* flipped, or one byte replaced, or its tail cut, or a byte appended, and *)
(* it is decoded again.                                                    *)

Pending == [err |-> "pending", val |-> None, log |-> <<>>]
Idle == None

ProbeBytes == {0, 153, 255}

FlipBitAt(buf, p) ==
    [buf EXCEPT ![(p \div 8) + 1] =
        IF BitAt(buf, p) = 1 THEN @ - 2 ^ (7 - (p % 8)) ELSE @ + 2 ^ (7 - (p % 8))]

Init ==
    /\ input \in BaseInputs
    /\ result = Pending
    /\ orig = None
    /\ origResult = Pending
    /\ peer = Idle
    /\ cmp = Idle
    /\ desc = Pending
    /\ got = Idle

FromBytes ==
    /\ result = Pending
    /\ result' = SpliceInfoSection_from_bytes(input)
    /\ UNCHANGED <<input, orig, origResult, peer, cmp, desc, got>>

Derive(buf, how) ==
    /\ result # Pending
    /\ orig = None
    /\ buf # input
    /\ orig' = Some([buf |-> input, how |-> how])
    /\ origResult' = result
    /\ input' = buf
    /\ result' = Pending
    /\ UNCHANGED <<peer, cmp, desc, got>>

FlipBit ==
    \E p \in 0..(8 * Len(input) - 1) :
        Derive(FlipBitAt(input, p), [kind |-> "flip", at |-> p])

SetByte ==
    \E i \in 1..Len(input), v \in ProbeBytes :
        Derive([input EXCEPT ![i] = v], [kind |-> "set", at |-> i])

Truncate ==
    \E k \in 0..(Len(input) - 1) :
        Derive(SubSeq(input, 1, k), [kind |-> "cut", at |-> k])

Extend ==
    \E v \in ProbeBytes :
        Derive(input \o <<v>>, [kind |-> "append", at |-> Len(input)])

Next == FromBytes \/ FlipBit \/ SetByte \/ Truncate \/ Extend

Spec == Init /\ [][Next]_vars

----------------------------------------------------------------------------
(* The comparison scenario: a second buffer is decoded and the two         *)
(* sections are compared with == and !=, each way round.                   *)

\* a buffer, and the same with another pts_adjustment or another tier
Variants(buf) == {buf, [buf EXCEPT ![9] = 204], [buf EXCEPT ![11] = 127]}

Peers == UNION {Variants(buf) : buf \in WellFormed}

DecodePeer ==
    /\ result # Pending
    /\ result.err = NoError
    /\ peer = Idle
    /\ \E buf \in Peers :
          peer' = Some([buf |-> buf, result |-> SpliceInfoSection_from_bytes(buf)])
    /\ UNCHANGED <<input, result, orig, origResult, cmp, desc, got>>

Compare ==
    /\ peer # Idle
    /\ peer[1].result.err = NoError
    /\ cmp = Idle
    /\ cmp' = Some([eq_ab |-> SpliceInfoSection_eq(result.val, peer[1].result.val),
                    eq_ba |-> SpliceInfoSection_eq(peer[1].result.val, result.val),
                    ne_ab |-> SpliceInfoSection_ne(result.val, peer[1].result.val),
                    ne_ba |-> SpliceInfoSection_ne(peer[1].result.val, result.val)])
    /\ UNCHANGED <<input, result, orig, origResult, peer, desc, got>>

EqNext == FromBytes \/ DecodePeer \/ Compare

EqSpec == Init /\ [][EqNext]_vars

----------------------------------------------------------------------------
(* The accessor scenario: a SegmentationDescriptor is decoded from a body  *)
(* or built by the constructor, and one of its attributes is read.         *)

SegmentationBodies ==
    {SegmentationBody(cancel, psf, sdf, dnr, ncomp, nupid, type, nsub) :
        cancel \in BOOLEAN, psf \in BOOLEAN, sdf \in BOOLEAN, dnr \in BOOLEAN,
        ncomp \in 0..MaxComponents, nupid \in {MaxUpidLen},
        type \in {16, PROVIDER_PLACEMENT_OPPORTUNITY_END}, nsub \in 0..2}

\* a body with the cancel indicator set ahead of whatever follows
Cancelled(body) == [body EXCEPT ![9] = 255]

DescriptorBodies == SegmentationBodies \cup {Cancelled(b) : b \in SegmentationBodies}

\* what is read of a descriptor: the properties, and the segment numbers
Accessors == Properties \cup {"segment_num", "segments_expected"}

DescInit ==
    /\ input \in DescriptorBodies
    /\ result = Pending
    /\ orig = None
    /\ origResult = Pending
    /\ peer = Idle
    /\ cmp = Idle
    /\ desc = Pending
    /\ got = Idle

DecodeDescriptor ==
    /\ desc = Pending
    /\ desc' = SegmentationDescriptor_from_bytes(BitString(input), <<>>)
    /\ UNCHANGED <<input, result, orig, origResult, peer, cmp, got>>

Construct ==
    /\ desc = Pending
    /\ \E cancel \in BOOLEAN, psf \in BOOLEAN, sdf \in BOOLEAN, dnr \in BOOLEAN :
          desc' = [err |-> NoError,
                   val |-> SegmentationDescriptor(<<42746, 65179>>, cancel, psf, sdf,
                                                  dnr, FALSE, FALSE, FALSE, 0),
                   log |-> <<>>]
    /\ UNCHANGED <<input, result, orig, origResult, peer, cmp, got>>

ReadAttr ==
    /\ desc # Pending
    /\ desc.err = NoError
    /\ got = Idle
    /\ \E name \in Accessors :
          got' = Some([name |-> name, out |-> getattr(desc.val, name)])
    /\ UNCHANGED <<input, result, orig, origResult, peer, cmp, desc>>

DescNext == DecodeDescriptor \/ Construct \/ ReadAttr

DescSpec == DescInit /\ [][DescNext]_vars

\* A section is decoded, one of its sequences is read through an accessor,
\* the sequence handed out is changed by the caller, and the section is read
\* and compared again.  A sequence handed out is the list an attribute holds
\* (`of` names the attribute) or a list of its own.

\* line 599: `self._descriptors.copy()`, a new list of the same elements
list_copy(l) == [of |-> None, items |-> l]

\* line 407: `return self._components`, the list the attribute holds
attribute(self, attr) == [of |-> Some(attr), items |-> self.dict[attr]]

\* lines 597-599
SpliceInfoSection_descriptors(self) == Returned(list_copy(self.dict["_descriptors"]))

\* lines 402-407
SegmentationDescriptor_components(self) ==
    LET t == program_segmentation_flag(self)
    IN  IF t.err # NoError THEN t
        ELSE IF t.val[1] THEN Raised("FieldNotDefinedException")
        ELSE Returned(attribute(self, "_components"))

\* the sequence of the section that `owner` names: its descriptors (0), or
\* the components of its owner-th descriptor
sequence(section, owner) ==
    IF owner = 0 THEN SpliceInfoSection_descriptors(section)
    ELSE SegmentationDescriptor_components(section.dict["_descriptors"][owner])

\* list.append(x), del list[0], list[0] = x
ListOps == {"append", "del", "setitem"}

list_apply(l, op, x) ==
    CASE op = "append" -> Append(l, x)
      [] op = "del" -> Tail(l)
      [] op = "setitem" -> [l EXCEPT ![1] = x]

\* what a caller may put into a sequence of the kind
Element(owner) ==
    IF owner = 0 THEN AvailDescriptor(<<0, 7>>) ELSE [tag |-> 7, pts_offset |-> <<0, 7>>]

ReadSequence ==
    /\ result # Pending
    /\ result.err = NoError
    /\ got = Idle
    /\ \E owner \in 0..Len(result.val.dict["_descriptors"]) :
          /\ owner > 0 =>
                result.val.dict["_descriptors"][owner].class = "SegmentationDescriptor"
          /\ got' = Some([owner |-> owner, out |-> sequence(result.val, owner)])
    /\ UNCHANGED <<input, result, orig, origResult, peer, cmp, desc>>

\* the caller changes the list it was handed; a list shared with an attribute
\* changes under the attribute as well
MutateReturned ==
    /\ got # Idle
    /\ got[1].out.err = NoError
    /\ orig = None
    /\ \E op \in ListOps :
          LET held == got[1].out.val[1]
              items == list_apply(held.items, op, Element(got[1].owner))
          IN  /\ op = "append" \/ held.items # <<>>
              /\ got' = Some([got[1] EXCEPT !.out = Returned([held EXCEPT !.items = items])])
              /\ result' =
                    IF held.of = None THEN result
                    ELSE [result EXCEPT
                            !.val.dict["_descriptors"][got[1].owner].dict[held.of[1]] =
                                items]
              /\ orig' = Some([buf |-> input, how |-> [kind |-> op, at |-> got[1].owner]])
              /\ origResult' = result
    /\ UNCHANGED <<input, peer, cmp, desc>>

\* the same accessor read again, and the section compared with a second
\* decode of its input, next to what both gave before the change
ReadAgain ==
    /\ orig # None
    /\ got # Idle
    /\ cmp = Idle
    /\ LET twin == SpliceInfoSection_from_bytes(input).val
       IN  cmp' = Some([before |-> sequence(origResult.val, got[1].owner),
                        after |-> sequence(result.val, got[1].owner),
                        eq_before |-> SpliceInfoSection_eq(origResult.val, twin),
                        eq_after |-> SpliceInfoSection_eq(result.val, twin)])
    /\ UNCHANGED <<input, result, orig, origResult, peer, desc, got>>

FrameNext == FromBytes \/ ReadSequence \/ MutateReturned \/ ReadAgain

FrameSpec == Init /\ [][FrameNext]_vars

----------------------------------------------------------------------------
(* HlsCueTag: the text of a tag, its CUE attribute, the bytes the          *)
(* attribute encodes.  A text is a string; a match ends in None or in      *)
(* Some(group 1).                                                          *)

Char(s, i) == SubSeq(s, i, i)

StartsWith(s, prefix) == Len(s) >= Len(prefix) /\ SubSeq(s, 1, Len(prefix)) = prefix

\* the positions of the line breaks of s, which `.` does not match
LineBreaks(s) == {i \in 1..Len(s) : Char(s, i) = "\n"}

HLS_TAG == "#EXT-X-SCTE35:"

\* line 763: re.match(r'^#EXT-X-SCTE35:(.*)$', cue_text); `$` matches at the
\* end of the text and ahead of a line break that ends it
match_tag(cue_text) ==
    IF ~StartsWith(cue_text, HLS_TAG) THEN None
    ELSE LET cue_params == SubSeq(cue_text, Len(HLS_TAG) + 1, Len(cue_text))
         IN  IF LineBreaks(cue_params) = {} THEN Some(cue_params)
             ELSE IF LineBreaks(cue_params) = {Len(cue_params)}
                  THEN Some(SubSeq(cue_params, 1, Len(cue_params) - 1))
             ELSE None

\* [A-Za-z0-9+/], in the order of their values (RFC 4648)
Alphabet == "ABCDEFGHIJKLMNOPQRSTUVWXYZabcdefghijklmnopqrstuvwxyz0123456789+/"

Base64Chars == {Char(Alphabet, i) : i \in 1..64}

\* where the run of Base64 characters that starts at position i of s ends
RunEnd(s, i) ==
    LET stops == {j \in i..Len(s) : Char(s, j) \notin Base64Chars} \cup {Len(s) + 1}
    IN  CHOOSE j \in stops : \A k \in stops : j <= k

\* line 775: what follows "CUE=" at position p of s, matched against
\* \"?((?:[A-Za-z0-9+/]{4})+(?:[A-Za-z0-9+/]{2}==|[A-Za-z0-9+/]{3}=)?)\"?.*
cue_at(s, p) ==
    LET from == IF p + 4 <= Len(s) /\ Char(s, p + 4) = "\"" THEN p + 5 ELSE p + 4
        run == RunEnd(s, from) - from
        quads == 4 * (run \div 4)
        padded ==
            \/ run % 4 = 2 /\ from + run + 1 <= Len(s)
                           /\ SubSeq(s, from + run, from + run + 1) = "=="
            \/ run % 4 = 3 /\ from + run <= Len(s) /\ Char(s, from + run) = "="
    IN  IF run < 4 THEN None
        ELSE Some(SubSeq(s, from, from + quads - 1 + (IF padded THEN 4 ELSE 0)))

\* lines 775-776: re.match(r'.*CUE=...', cue_params); the greedy `.*` ahead of
\* CUE= settles on the last place where the rest matches
match_cue(cue_params) ==
    LET places == {p \in 1..(Len(cue_params) - 3) :
                      SubSeq(cue_params, p, p + 3) = "CUE=" /\ cue_at(cue_params, p) # None}
    IN  IF places = {} THEN None
        ELSE cue_at(cue_params, CHOOSE p \in places : \A q \in places : q <= p)

\* fault: the CUE attribute looked for ahead of the tag name
tag_components_cue_first(cue_text) ==
    IF match_cue(cue_text) = None THEN Raised("MissingCueException")
    ELSE IF match_tag(cue_text) = None THEN Raised("NotAnHLSCueTag")
    ELSE Returned([CUE |-> match_cue(match_tag(cue_text)[1])[1]])

\* lines 757-783: the CUE component, or the exception raised; the optional
\* components that follow raise nothing
tag_components(cue_text) ==
    IF match_tag(cue_text) = None THEN Raised("NotAnHLSCueTag")
    ELSE IF match_cue(match_tag(cue_text)[1]) = None THEN Raised("MissingCueException")
    ELSE Returned([CUE |-> match_cue(match_tag(cue_text)[1])[1]])

\* fault: the characters + and / of the standard alphabet not told apart from A
SextetUrlSafe(c) ==
    IF c = "=" THEN 0
    ELSE IF c = "+" THEN 0
    ELSE IF c = "/" THEN 0
    ELSE (CHOOSE i \in 1..64 : Char(Alphabet, i) = c) - 1

\* the value of a character of Base64 text, the padding counting as 0
Sextet(c) == IF c = "=" THEN 0 ELSE (CHOOSE i \in 1..64 : Char(Alphabet, i) = c) - 1

\* the 24 bits of the q-th group of four characters of s, counting from 0
Quad(s, q) ==
    262144 * Sextet(Char(s, 4 * q + 1)) + 4096 * Sextet(Char(s, 4 * q + 2))
        + 64 * Sextet(Char(s, 4 * q + 3)) + Sextet(Char(s, 4 * q + 4))

\* line 725: base64.standard_b64decode on the text of a CUE component, which
\* is made of whole groups of four, the last one padded or not
standard_b64decode(s) ==
    LET padding == IF Len(s) >= 2 /\ SubSeq(s, Len(s) - 1, Len(s)) = "==" THEN 2
                   ELSE IF Len(s) >= 1 /\ Char(s, Len(s)) = "=" THEN 1
                   ELSE 0
    IN  [k \in 1..(3 * (Len(s) \div 4) - padding) |->
            CASE (k - 1) % 3 = 0 -> Quad(s, (k - 1) \div 3) \div 65536
              [] (k - 1) % 3 = 1 -> (Quad(s, (k - 1) \div 3) \div 256) % 256
              [] (k - 1) % 3 = 2 -> Quad(s, (k - 1) \div 3) % 256]

\* the texts: a tag name or what is left of one, attributes ahead of the CUE
\* attribute, the CUE attribute, and what follows it
TagNames == {HLS_TAG, "EXT-X-SCTE35:", "", " #EXT-X-SCTE35:", "#EXT-X-SCTE35"}

AttributesAhead ==
    {"", "TYPE=0x34,", "TYPE=0x35,CUE-IN=YES,", "TYPE=0x34,\nELAPSED=0.000,",
     "TYPE=0x10,ELAPSED=0.0,UPID=\"0x08:0x9425\",BLACKOUT=MAYBE,"}

\* the cue of tests/test_cue_components.py test_sample_1
Sample1 ==
    "/DBfAAD6i73N///wBQb+mV9eNwBJAhxDVUVJpvr+m3//AAGHhoEICAAF3oCm+v6bNAIDAilDVUVJAAAAAH+/DBpWTU5VATrI4MzmGxHnv9QAJrlBTzABZTRfGAEAADd/IDU="

\* a time_signal section without descriptors, whole and one byte short,
\* and text too short for a cue
Payloads == {Sample1, "/DAOAAD6i73N///wAQZ/AAA=", "/DAOAAD6i73N///wAQZ/AA==", "/DA", ""}

CueAttributes ==
    {""} \cup {"CUE=" \o payload : payload \in Payloads}
         \cup {"CUE=\"" \o payload \o "\"" : payload \in Payloads}

AttributesBehind == {"", ",ELAPSED=98.098", ",ID=\"dAQ\"", "\n"}

CueTexts ==
    {name \o ahead \o cue \o behind :
        name \in TagNames, ahead \in AttributesAhead,
        cue \in CueAttributes, behind \in AttributesBehind}

CueInit ==
    /\ input \in CueTexts
    /\ result = Pending
    /\ orig = None
    /\ origResult = Pending
    /\ peer = Idle
    /\ cmp = Idle
    /\ desc = Pending
    /\ got = Idle

\* line 722
TagComponents ==
    /\ got = Idle
    /\ got' = Some(tag_components(input))
    /\ UNCHANGED <<input, result, orig, origResult, peer, cmp, desc>>

\* lines 724-725
DecodeCue ==
    /\ got # Idle
    /\ got[1].err = NoError
    /\ result = Pending
    /\ result' = SpliceInfoSection_from_bytes(standard_b64decode(got[1].val[1].CUE))
    /\ UNCHANGED <<input, orig, origResult, peer, cmp, desc, got>>

CueNext == TagComponents \/ DecodeCue

CueSpec == CueInit /\ [][CueNext]_vars

\* Sections whose splice_command_length is the all-ones value: the
\* section_length, the command type, the bytes behind the first command byte
\* and the length of the input vary, the last two bytes being a
\* descriptor_loop_length of 0.
MaxSectionLength == 4095
AllOnes == 4095

LongSection(section_length, type, fill, total) ==
    [i \in 1..total |->
        CASE i = 1 -> SPLICE_INFO_SECTION_TABLE_ID
          [] i = 2 -> 48 + (section_length \div 256)
          [] i = 3 -> section_length % 256
          [] i \in 4..14 ->
                <<0, 0, 250, 139, 189, 205, 255, 255, 240 + (AllOnes \div 256),
                  AllOnes % 256, type>>[i - 3]
          [] i = 15 -> 127
          [] i > 15 /\ i >= total - 1 -> 0
          [] OTHER -> fill]

LongSections ==
    {LongSection(section_length, type, fill,
                 IF overlong THEN 3 + 11 + AllOnes + 2 ELSE 3 + section_length) :
        section_length \in {14, 100, MaxSectionLength - 1, MaxSectionLength},
        type \in SpliceCommandType \cup {153},
        fill \in {0, 255},
        overlong \in BOOLEAN}

LongInit ==
    /\ input \in LongSections
    /\ result = Pending
    /\ orig = None
    /\ origResult = Pending
    /\ peer = Idle
    /\ cmp = Idle
    /\ desc = Pending
    /\ got = Idle

LongNext == FromBytes

LongSpec == LongInit /\ [][LongNext]_vars

\* Sections with several things wrong at once: any of a table id that is
\* not 0xFC, reserved bits that are not 0b11, a section_length one more than
\* the bytes that follow, the encrypted_packet bit, a splice_command_length
\* beyond the section, and a command type that is unknown or not implemented.
Faults == {"table_id", "reserved", "section_length", "encrypted", "command_length"}

CommandTypes == {TIME_SIGNAL, SPLICE_INSERT, 153}

Faulty(buf, faults, type) ==
    [i \in 1..Len(buf) |->
        CASE i = 1 /\ "table_id" \in faults -> 0
          [] i = 2 /\ "reserved" \in faults -> buf[i] - 16
          [] i = 3 /\ "section_length" \in faults -> buf[i] + 1
          [] i = 5 /\ "encrypted" \in faults -> buf[i] + 128
          [] i = 13 /\ "command_length" \in faults -> 255
          [] i = 14 -> type
          [] OTHER -> buf[i]]

FaultySections ==
    {Faulty(SectionWire(TIME_SIGNAL, 1, <<127>>, Window(1, 1), <<>>), faults, type) :
        faults \in SUBSET Faults, type \in CommandTypes}

OrderInit ==
    /\ input \in FaultySections
    /\ result = Pending
    /\ orig = None
    /\ origResult = Pending
    /\ peer = Idle
    /\ cmp = Idle
    /\ desc = Pending
    /\ got = Idle

OrderNext == FromBytes

OrderSpec == OrderInit /\ [][OrderNext]_vars

----------------------------------------------------------------------------
(* Properties *)

\* the buffer was derived by a mutation of the kind given and decoded again
Derived(kind) == orig # None /\ orig[1].how.kind = kind /\ result # Pending

\* outcome r read the field called name over a range that holds bit offset bit
ReadAt(r, name, bit) ==
    \E i \in 1..Len(r.log) :
        /\ r.log[i].field = name
        /\ r.log[i].at <= bit
        /\ bit < r.log[i].at + r.log[i].bits

\* outcome r read the field called name starting at bit offset bit
ReadFrom(r, name, bit) ==
    \E i \in 1..Len(r.log) : r.log[i].field = name /\ r.log[i].at = bit

\* C1: from_bytes on an input of at least one byte whose first byte is not
\* 0xFC fails with InvalidTableIdException, whatever the remaining bytes are.
C1_InvalidTableId ==
    (result # Pending /\ Len(input) >= 1 /\ input[1] # 252)
        => result.err = "InvalidTableIdException" /\ result.val = None

C1_Witness ==
    /\ result # Pending
    /\ Len(input) > 1
    /\ input[1] # 252
    /\ result.err = "InvalidTableIdException"

\* C2: in a buffer that decodes successfully, flipping one bit of a reserved
\* group the decoder reads makes the decode fail with ReservedBitsException.
C2_ReservedBitFlip ==
    (Derived("flip") /\ origResult.err = NoError
                     /\ ReadAt(origResult, "reserved", orig[1].how.at))
        => result.err = "ReservedBitsException"

\* the flipped bit is one of the 7 reserved bits of a segmentation component
C2_Witness ==
    /\ Derived("flip")
    /\ origResult.err = NoError
    /\ \E i \in 2..Len(origResult.log) :
          /\ origResult.log[i].field = "reserved"
          /\ origResult.log[i - 1].field = "tag"
          /\ origResult.log[i].at <= orig[1].how.at
          /\ orig[1].how.at < origResult.log[i].at + origResult.log[i].bits
    /\ result.err = "ReservedBitsException"

\* the errors of a read that ran past the end of its region
TruncatedInput == {"ReadError", "SectionParsingErrorException"}

\* 3 + section_length, section_length being the low 12 bits of bytes 2 and 3
DeclaredEnd(buf) == 3 + uint(buf, 12, 12)

\* a successfully decoded buffer was cut at a byte boundary before its
\* declared end
CutShort ==
    /\ Derived("cut")
    /\ origResult.err = NoError
    /\ orig[1].how.at < DeclaredEnd(orig[1].buf)

\* the first byte cut away is a sub_segment_num or sub_segments_expected byte
\* the decoder had read
CutInSubSegment ==
    \/ ReadFrom(origResult, "sub_segment_num", 8 * orig[1].how.at)
    \/ ReadFrom(origResult, "sub_segments_expected", 8 * orig[1].how.at)

\* C3, as amended: cutting a buffer that decodes successfully at any byte
\* boundary before its declared end (3 + section_length bytes) makes the
\* decode fail with bitstring.ReadError, also when the cut falls within the
\* trailing sub_segment bytes of a placement-opportunity descriptor.
C3_Truncation == CutShort => result.err = "ReadError" /\ result.val = None

C3_Witness == CutShort /\ CutInSubSegment /\ result.err = "ReadError"

\* C3 as stated: the cut makes the decode fail with TruncatedInput, except
\* within the trailing sub_segment bytes, where the decode still succeeds.
C3_AsStated ==
    CutShort => IF CutInSubSegment THEN result.err = NoError
                ELSE result.err \in TruncatedInput

\* pts_adjustment, tier and splice_command equal, the descriptor sequences
\* of the same length and equal element by element
Structural(a, b) ==
    /\ a.dict["_pts_adjustment"] = b.dict["_pts_adjustment"]
    /\ a.dict["_tier"] = b.dict["_tier"]
    /\ a.dict["_splice_command"] = b.dict["_splice_command"]
    /\ Len(a.dict["_descriptors"]) = Len(b.dict["_descriptors"])
    /\ \A i \in 1..Len(a.dict["_descriptors"]) :
          a.dict["_descriptors"][i] = b.dict["_descriptors"][i]

\* C4 as stated: two sections compare equal if and only if their
\* pts_adjustment, tier and splice_command are equal and their descriptor
\* sequences have the same length and are equal element by element; sections
\* that differ in the length or in an element of the sequence are not equal.
C4_StructuralEquality ==
    cmp # Idle =>
        IF Structural(result.val, peer[1].result.val)
        THEN cmp[1].eq_ab = "True" /\ cmp[1].ne_ab = "False"
        ELSE cmp[1].eq_ab = "False" /\ cmp[1].ne_ab = "True"

\* a section compared with one that continues its descriptor sequence
C4_Witness ==
    /\ cmp # Idle
    /\ Len(result.val.dict["_descriptors"]) = 1
    /\ Len(peer[1].result.val.dict["_descriptors"]) = 2
    /\ result.val.dict["_descriptors"][1] = peer[1].result.val.dict["_descriptors"][1]
    /\ result.val.dict["_splice_command"] = peer[1].result.val.dict["_splice_command"]
    /\ result.val.dict["_tier"] = peer[1].result.val.dict["_tier"]
    /\ cmp[1].eq_ab = "True"

\* C5 as stated: equality is symmetric and total: a == b and b == a return
\* the same boolean, a != b and b != a return the same boolean, and no
\* comparison raises.
C5_SymmetricTotal ==
    cmp # Idle =>
        /\ {cmp[1].eq_ab, cmp[1].eq_ba, cmp[1].ne_ab, cmp[1].ne_ba}
               \subseteq {"True", "False"}
        /\ cmp[1].eq_ab = cmp[1].eq_ba
        /\ cmp[1].ne_ab = cmp[1].ne_ba

\* one way round the comparison raises, the other way it answers
C5_Witness ==
    /\ cmp # Idle
    /\ cmp[1].eq_ab = "IndexError"
    /\ cmp[1].eq_ba = "True"

Implied(d, name) ==
    CASE name \in {"segmentation_event_id", "segmentation_event_cancel_indicator"} ->
            TRUE
      [] name \in {"web_delivery_allowed_flag", "no_regional_blackout_flag",
                   "archive_allowed_flag", "device_restrictions"} ->
            ~d["_segmentation_event_cancel_indicator"]
                /\ ~d["_delivery_not_restricted_flag"]
      [] name = "components" ->
            ~d["_segmentation_event_cancel_indicator"]
                /\ ~d["_program_segmentation_flag"]
      [] name = "segmentation_duration" ->
            ~d["_segmentation_event_cancel_indicator"]
                /\ d["_segmentation_duration_flag"]
      [] OTHER -> ~d["_segmentation_event_cancel_indicator"]

\* a descriptor decoded from a body, of which an attribute was read
DecodedAndRead == desc # Pending /\ desc.log # <<>> /\ got # Idle

\* C7 as stated: the accessors of a decoded SegmentationDescriptor expose
\* exactly the fields its flags imply (segment_num and segments_expected
\* among them, whenever it is not cancelled) and raise
\* FieldNotDefinedException for every other field.
C7_Accessors ==
    DecodedAndRead =>
        IF Implied(desc.val.dict, got[1].name)
        THEN got[1].out.err = NoError
        ELSE got[1].out.err = "FieldNotDefinedException"

\* segment_num read on a descriptor that is not cancelled
C7_Witness ==
    /\ DecodedAndRead
    /\ ~desc.val.dict["_segmentation_event_cancel_indicator"]
    /\ got[1].name = "segment_num"
    /\ got[1].out.err = "AttributeError"

\* C7 for the accessors the class defines: each exposes its field exactly
\* when the flags imply it and raises FieldNotDefinedException otherwise.
C7_DefinedAccessors ==
    (DecodedAndRead /\ got[1].name \in Properties) =>
        IF Implied(desc.val.dict, got[1].name)
        THEN got[1].out.err = NoError
        ELSE got[1].out.err = "FieldNotDefinedException"

\* a cancelled descriptor, decoded or constructed
IsCancelled ==
    /\ desc # Pending
    /\ desc.err = NoError
    /\ desc.val.dict["_segmentation_event_cancel_indicator"]

\* C8: when segmentation_event_cancel_indicator is true (decoded or passed
\* to the constructor), the decode reads nothing after the 7 reserved bits,
\* segmentation_event_id and segmentation_event_cancel_indicator are the only
\* readable fields, and the three flags, the four delivery restrictions,
\* components, segmentation_duration, segmentation_upid_type,
\* segmentation_upid_bytes and segmentation_type raise
\* FieldNotDefinedException.
C8_Cancelled ==
    IsCancelled =>
        /\ desc.log # <<>> =>
              /\ desc.log[Len(desc.log)].field = "reserved"
              /\ desc.log[Len(desc.log)].at + desc.log[Len(desc.log)].bits = 72
        /\ got # Idle =>
              CASE got[1].name \in {"segmentation_event_id",
                                    "segmentation_event_cancel_indicator"} ->
                      got[1].out.err = NoError
                [] got[1].name \in Properties ->
                      got[1].out.err = "FieldNotDefinedException"
                [] OTHER -> got[1].out.err # NoError

\* a body that goes on after the cancel indicator, and a gated field read
C8_Witness ==
    /\ IsCancelled
    /\ Len(input) > 9
    /\ desc.log # <<>>
    /\ got # Idle
    /\ got[1].name = "web_delivery_allowed_flag"
    /\ got[1].out.err = "FieldNotDefinedException"

\* the byte set is the one of the enumerated field called name, which the
\* decoder reaches, and its value is none of members
SetOutside(name, members) ==
    /\ Derived("set")
    /\ ReadFrom(origResult, name, 8 * (orig[1].how.at - 1))
    /\ input[orig[1].how.at] \notin members

\* C9: a splice_command_type byte outside {0x00, 0x04, 0x05, 0x06, 0x07,
\* 0xFF}, a segmentation_upid_type outside 0x00..0x0F and a segmentation_type
\* outside the enumeration each make the decode fail with ValueError, the
\* error of the enumeration lookup.
C9_UnknownEnumValue ==
    (\/ SetOutside("splice_command_type", {0, 4, 5, 6, 7, 255})
     \/ SetOutside("segmentation_upid_type", 0..15)
     \/ SetOutside("segmentation_type", SegmentationType))
        => result.err = "ValueError" /\ result.val = None

C9_Witness ==
    /\ SetOutside("segmentation_type", SegmentationType)
    /\ input[orig[1].how.at] = 153
    /\ result.err = "ValueError"

\* the decode read a splice_command_type that is defined but not implemented
Unimplemented ==
    /\ result # Pending
    /\ \E i \in 1..Len(result.log) :
          /\ result.log[i].field = "splice_command_type"
          /\ uint(input, result.log[i].at, 8) \in {0, 4, 5, 7, 255}

\* the section holds the splice_command_length bytes of the command
CommandFits ==
    \E i \in 1..Len(result.log) : result.log[i].field = "splice_command_bitarray"

\* C10, as amended: when splice_command_type is SPLICE_NULL, SPLICE_SCHEDULE,
\* SPLICE_INSERT, BANDWIDTH_RESERVATION or PRIVATE_COMMAND and the section
\* holds the splice_command_length bytes that follow, the decode fails with
\* NotImplementedException; when it does not hold them, the decode fails with
\* bitstring.ReadError; no section is returned either way.
C10_NotImplemented ==
    Unimplemented =>
        /\ result.val = None
        /\ result.err = IF CommandFits THEN "NotImplementedException" ELSE "ReadError"

C10_Witness ==
    /\ Unimplemented
    /\ CommandFits
    /\ result.err = "NotImplementedException"

\* C10 as stated: with one of these command types the decode fails with
\* NotImplementedException.
C10_AsStated ==
    Unimplemented => result.err = "NotImplementedException" /\ result.val = None

\* the decode read a descriptor tag of value v as its i-th read
TagRead(i, v) ==
    /\ result # Pending
    /\ i \in 1..Len(result.log)
    /\ result.log[i].field = "splice_descriptor_tag"
    /\ uint(input, result.log[i].at, 8) = v

\* the read after next of the i-th is the slice of a descriptor body
BodyFits(i) ==
    /\ i + 2 <= Len(result.log)
    /\ result.log[i + 2].field = "descriptor_bitarray"

\* C11, as amended: in the descriptor loop a tag byte that is no member of
\* SpliceDescriptorType makes the decode fail with ValueError, the error of
\* the enumeration lookup; the TIME_DESCRIPTOR tag (0x03) makes it fail with
\* NotImplementedException once its length byte and its body have been
\* sliced from the loop region, and with SectionParsingErrorException when
\* they run past the end of that region.
C11_DescriptorTag ==
    \A i \in 1..(IF result = Pending THEN 0 ELSE Len(result.log)) :
        result.log[i].field = "splice_descriptor_tag" =>
            LET v == uint(input, result.log[i].at, 8)
            IN  v \in 3..255 =>
                    /\ result.val = None
                    /\ result.err = IF v # TIME_DESCRIPTOR THEN "ValueError"
                                    ELSE IF BodyFits(i) THEN "NotImplementedException"
                                    ELSE "SectionParsingErrorException"

C11_Witness ==
    /\ \E i \in 1..(IF result = Pending THEN 0 ELSE Len(result.log)) : TagRead(i, 153)
    /\ result.err = "ValueError"

\* C11 as stated: an unrecognized tag and the TIME_DESCRIPTOR tag both make
\* the decode fail with NotImplementedException.
C11_AsStated ==
    \A i \in 1..(IF result = Pending THEN 0 ELSE Len(result.log)) :
        (/\ result.log[i].field = "splice_descriptor_tag"
         /\ uint(input, result.log[i].at, 8) \in 3..255) =>
            result.err = "NotImplementedException"

\* the indices of the reads of the decode
Reads == 1..(IF result = Pending THEN 0 ELSE Len(result.log))

\* the i-th read of the decode is encrypted_packet, and the bit is set
EncryptedRead(i) ==
    /\ result.log[i].field = "encrypted_packet"
    /\ BitAt(input, result.log[i].at) = 1

\* C12: when the encrypted_packet bit, the first after the 8-bit
\* protocol_version of the section body, is set in an input that passes the
\* table id, the reserved bits and the section_length framing, the decode
\* fails with the exception for encrypted sections; encrypted_packet is its
\* last read, so pts_adjustment, tier and the command are not read, and no
\* section is returned.
C12_Encrypted ==
    \A i \in Reads :
        EncryptedRead(i) =>
            /\ result.err = "Exception"
            /\ result.val = None
            /\ i = Len(result.log)
            /\ result.log[i].at = 32

\* the bit was clear in a buffer that decoded, and has been set
C12_Witness ==
    /\ Derived("flip")
    /\ origResult.err = NoError
    /\ orig[1].how.at = 32
    /\ EncryptedRead(Len(result.log))
    /\ result.err = "Exception"

\* the reads of the field called name
ReadsOf(name) == {i \in Reads : result.log[i].field = name}

\* the descriptor slices fill the descriptor-loop region to its last bit
LoopExhausted ==
    \E l \in ReadsOf("descriptor_loop_bitarray") :
        LET end == result.log[l].at + result.log[l].bits
        IN  IF ReadsOf("descriptor_bitarray") = {} THEN result.log[l].bits = 0
            ELSE \E d \in ReadsOf("descriptor_bitarray") :
                    /\ result.log[d].at + result.log[d].bits = end
                    /\ \A e \in ReadsOf("descriptor_bitarray") : e <= d

\* the returned section holds the pts_adjustment and the tier of the input,
\* one TimeSignal command, and one descriptor for every slice of a loop
\* region that was read to its end
Complete ==
    /\ result.val.class = "SpliceInfoSection"
    /\ \E i \in ReadsOf("pts_adjustment") :
          result.val.dict["_pts_adjustment"] = wide(input, result.log[i].at, 33)
    /\ \E i \in ReadsOf("tier") :
          result.val.dict["_tier"] = uint(input, result.log[i].at, 12)
    /\ result.val.dict["_splice_command_type"] = TIME_SIGNAL
    /\ result.val.dict["_splice_command"] # None
    /\ result.val.dict["_splice_command"][1].class = "TimeSignal"
    /\ Len(result.val.dict["_descriptors"])
          = Cardinality(ReadsOf("descriptor_bitarray"))
    /\ LoopExhausted

\* C13: from_bytes either returns a section whose pts_adjustment, tier, one
\* TimeSignal command (splice_command_type TIME_SIGNAL) and complete
\* descriptor list are populated, or fails with an error and hands no section
\* to the caller, wherever in the decode the error occurs; constructing an
\* HlsCueTag from the same bytes then fails with the same error.
C13_NoPartialSection ==
    result # Pending =>
        IF result.err = NoError
        THEN /\ Complete
             /\ HlsCueTag_init(result).err = NoError
             /\ HlsCueTag_init(result).val.dict["_splice_info_section"] = result.val
        ELSE /\ result.val = None
             /\ HlsCueTag_init(result).err = result.err
             /\ HlsCueTag_init(result).val = None

\* a reserved-bit violation in the second descriptor of the loop, the first
\* having been decoded
C13_Witness ==
    /\ Derived("flip")
    /\ origResult.err = NoError
    /\ Cardinality(ReadsOf("splice_descriptor_tag")) = 2
    /\ result.err = "ReservedBitsException"
    /\ result.val = None

\* the command of the section returned
Command == result.val.dict["_splice_command"][1].dict

\* what follows a set time_specified_flag read as the f-th read: 6 reserved
\* bits, all ones, then the 33 bits of pts_time
Specified(f) ==
    /\ result.log[f + 1].field = "reserved"
    /\ result.log[f + 1].at = result.log[f].at + 1
    /\ result.log[f + 1].bits = 6
    /\ uint(input, result.log[f + 1].at, 6) = 63
    /\ result.log[f + 2].field = "pts_time"
    /\ result.log[f + 2].at = result.log[f].at + 7
    /\ result.log[f + 2].bits = 33
    /\ Command["_immediate"] = FALSE
    /\ Command["_pts_time"] = Some(wide(input, result.log[f + 2].at, 33))
    /\ Command["_pts_time"][1][1] < 2 ^ 17
    /\ Command["_pts_time"][1][2] < 2 ^ 16

\* what follows a clear time_specified_flag read as the f-th read: nothing of
\* the command
Immediate(f) ==
    /\ result.log[f + 1].field = "descriptor_loop_length"
    /\ Command["_immediate"] = TRUE
    /\ Command["_pts_time"] = None

\* a bit of the command body other than a clear time_specified_flag was
\* flipped in a buffer that decoded
FlippedBehindClearFlag ==
    /\ Derived("flip")
    /\ origResult.err = NoError
    /\ \E i \in 1..Len(origResult.log) :
          /\ origResult.log[i].field = "splice_command_bitarray"
          /\ BitAt(orig[1].buf, origResult.log[i].at) = 0
          /\ origResult.log[i].at < orig[1].how.at
          /\ orig[1].how.at < origResult.log[i].at + origResult.log[i].bits

\* C14: a set time_specified_flag is followed by 6 reserved bits that are all
\* ones and by the 33 bits that become pts_time, with is_immediate false; a
\* clear one gives is_immediate true without another read of the command, the
\* other bits of the command body not affecting the result.  So pts_time is
\* defined if and only if is_immediate is false, and pts_time < 2^33.
C14_TimeSignal ==
    /\ (result # Pending /\ result.err = NoError) =>
          /\ \A f \in ReadsOf("time_specified_flag") :
                IF BitAt(input, result.log[f].at) = 1 THEN Specified(f)
                ELSE Immediate(f)
          /\ Cardinality(ReadsOf("time_specified_flag")) = 1
          /\ (Command["_pts_time"] # None) <=> ~Command["_immediate"]
    /\ FlippedBehindClearFlag => result.err = NoError /\ result.val = origResult.val

C14_Witness ==
    /\ FlippedBehindClearFlag
    /\ result.err = NoError
    /\ Command["_immediate"] = TRUE
    /\ Len(result.val.dict["_descriptors"]) > 0

\* the k-th (tag, length, body) entry of the descriptor-loop region the decode
\* sliced as its l-th read: it starts where the entry before it ends
RECURSIVE EntryAt(_, _)
EntryAt(l, k) ==
    LET start == IF k = 1 THEN result.log[l].at
                 ELSE EntryAt(l, k - 1).body.off + EntryAt(l, k - 1).body.len
    IN  [tag |-> uint(input, start, 8),
         body |-> [data |-> input, off |-> start + 16,
                   len |-> 8 * uint(input, start + 8, 8)]]

\* how the decoder of an entry ends on the body of the entry alone
Decoded(entry) ==
    CASE entry.tag = AVAIL_DESCRIPTOR -> AvailDescriptor_from_bytes(entry.body, <<>>)
      [] entry.tag = DTMF_DESCRIPTOR -> DtmfDescriptor_from_bytes(entry.body, <<>>)
      [] entry.tag = SEGMENTATION_DESCRIPTOR ->
            SegmentationDescriptor_from_bytes(entry.body, <<>>)

\* the decoding of an entry on its own
Decoding(entry) == Decoded(entry).val

\* C15: the descriptors of a decoded section are in wire order: the i-th is
\* the decoding of the i-th (tag, length, body) entry of the descriptor-loop
\* region, there are as many descriptors as entries in the region, and a
\* descriptor_loop_length of 0 yields the empty sequence.
C15_WireOrder ==
    (result # Pending /\ result.err = NoError) =>
        \A l \in ReadsOf("descriptor_loop_bitarray") :
            LET descriptors == result.val.dict["_descriptors"]
                n == Len(descriptors)
            IN  /\ \A k \in 1..n : descriptors[k] = Decoding(EntryAt(l, k))
                /\ IF n = 0 THEN result.log[l].bits = 0
                   ELSE EntryAt(l, n).body.off + EntryAt(l, n).body.len
                            = result.log[l].at + result.log[l].bits
                /\ result.log[l].bits = 0 => descriptors = <<>>

\* two descriptors of different classes, in the order of the wire
C15_Witness ==
    /\ result # Pending
    /\ result.err = NoError
    /\ Len(result.val.dict["_descriptors"]) = 2
    /\ result.val.dict["_descriptors"][1].class = "SegmentationDescriptor"
    /\ result.val.dict["_descriptors"][2].class = "AvailDescriptor"

\* the slice of a descriptor body read as the d-th read, as an entry with the
\* tag read two reads earlier
Sliced(d) ==
    [tag |-> uint(input, result.log[d - 2].at, 8),
     body |-> [data |-> input, off |-> result.log[d].at, len |-> result.log[d].bits]]

\* the reads from the d-th on that come before the next descriptor tag
Within(d) ==
    {i \in Reads : i > d /\ \A t \in ReadsOf("splice_descriptor_tag") : t < d \/ t > i}

\* the slice read as the d-th read is the last one, and its decoder runs out
\* of bits on it
BodyTooShort(d) ==
    /\ \A e \in ReadsOf("descriptor_bitarray") : e <= d
    /\ Sliced(d).tag \in {AVAIL_DESCRIPTOR, DTMF_DESCRIPTOR, SEGMENTATION_DESCRIPTOR}
    /\ Decoded(Sliced(d)).err = "ReadError"

\* the tag read as the t-th read is a known one, and its length byte or its
\* body runs past the end of the descriptor-loop region
EntryTooLong(t) ==
    /\ uint(input, result.log[t].at, 8) \in SpliceDescriptorType
    /\ ~(t + 2 \in ReadsOf("descriptor_bitarray"))

\* C16: a descriptor decoder reads only inside its slice of descriptor_length
\* bytes, never the bits of a sibling: when the body needs more bits than the
\* slice holds, the decode fails with SectionParsingErrorException even when
\* further bytes follow in the descriptor loop; the same error is reported
\* when the tag and length header or the declared body runs past the end of
\* the descriptor-loop region.
C16_BoundedSlice ==
    result # Pending =>
        /\ \A d \in ReadsOf("descriptor_bitarray") :
              /\ \A i \in Within(d) :
                    /\ result.log[d].at <= result.log[i].at
                    /\ result.log[i].at + result.log[i].bits
                           <= result.log[d].at + result.log[d].bits
              /\ BodyTooShort(d) => result.err = "SectionParsingErrorException"
        /\ \A t \in ReadsOf("splice_descriptor_tag") :
              EntryTooLong(t) => result.err = "SectionParsingErrorException"

\* a body too short for its decoder, with bytes of the loop region behind it
C16_Witness ==
    /\ result # Pending
    /\ result.err = "SectionParsingErrorException"
    /\ \E d \in ReadsOf("descriptor_bitarray"), l \in ReadsOf("descriptor_loop_bitarray") :
          /\ BodyTooShort(d)
          /\ result.log[d].at + result.log[d].bits
                 < result.log[l].at + result.log[l].bits

\* the bit offsets of the original input that the mutation wrote to
Written ==
    CASE orig[1].how.kind = "flip" -> {orig[1].how.at}
      [] orig[1].how.kind = "set" -> (8 * (orig[1].how.at - 1))..(8 * orig[1].how.at - 1)
      [] OTHER -> {}

\* bit offset b lies in a descriptor slice of the original decode, behind
\* every bit the decoder of that descriptor read
Trailing(b) ==
    \E d \in 1..Len(origResult.log) :
        /\ origResult.log[d].field = "descriptor_bitarray"
        /\ origResult.log[d].at <= b
        /\ b < origResult.log[d].at + origResult.log[d].bits
        /\ \A i \in (d + 1)..Len(origResult.log) :
              \/ origResult.log[i].at + origResult.log[i].bits <= b
              \/ \E t \in (d + 1)..i : origResult.log[t].field = "splice_descriptor_tag"

\* a bit or a byte written behind what a descriptor's decoder read, in an
\* input that decoded
WroteTrailing ==
    /\ Derived("flip") \/ Derived("set")
    /\ origResult.err = NoError
    /\ \A b \in Written : Trailing(b)

\* C17: bits of a descriptor's slice that lie behind what its decoder reads
\* are ignored: the decode succeeds and gives the same section with the same
\* reads whatever those bits are, and the tag read after a descriptor is the
\* byte right behind the descriptor's declared length.
C17_TrailingIgnored ==
    /\ WroteTrailing =>
          /\ result.err = NoError
          /\ result.val = origResult.val
          /\ result.log = origResult.log
    /\ result # Pending =>
          \A d \in ReadsOf("descriptor_bitarray"), t \in ReadsOf("splice_descriptor_tag") :
              (t > d /\ \A u \in ReadsOf("splice_descriptor_tag") : u <= d \/ u >= t) =>
                  result.log[t].at = result.log[d].at + result.log[d].bits

\* a padding byte given another value, in a descriptor followed by another
C17_Witness ==
    /\ WroteTrailing
    /\ input # orig[1].buf
    /\ result.err = NoError
    /\ Len(result.val.dict["_descriptors"]) = 2
    /\ \E d \in ReadsOf("descriptor_bitarray"), t \in ReadsOf("splice_descriptor_tag") :
          /\ t > d
          /\ \A b \in Written : result.log[d].at <= b /\ b < result.log[t].at

\* the fields named in the reads of the decoded descriptor
FieldsRead == {desc.log[i].field : i \in 1..Len(desc.log)}

\* the segmentation type on the wire, where the decode read one
TypeOnWire ==
    {uint(input, desc.log[i].at, 8) :
        i \in {j \in 1..Len(desc.log) : desc.log[j].field = "segmentation_type"}}

PlacementOpportunity ==
    {PROVIDER_PLACEMENT_OPPORTUNITY_START, PROVIDER_PLACEMENT_OPPORTUNITY_END}

SubSegmentFields == {"sub_segment_num", "sub_segments_expected"}

\* the attributes of an object other than the sub-segment numbers
Earlier(object) ==
    [a \in DOMAIN object.dict \ {"_sub_segment_num", "_sub_segments_expected"} |->
        object.dict[a]]

\* the decode read the body to its last bit
Exhausted ==
    desc.log[Len(desc.log)].at + desc.log[Len(desc.log)].bits = 8 * Len(input)

\* C18: sub_segment_num and sub_segments_expected are read only when the
\* segmentation type is a provider placement opportunity start or end; when
\* the descriptor ends before them the decode still succeeds with the earlier
\* fields as they are when the two bytes are there; for any other type they
\* are never read, whatever follows segments_expected.
C18_SubSegments ==
    (desc # Pending /\ desc.log # <<>>) =>
        /\ desc.err = NoError
        /\ FieldsRead \cap SubSegmentFields # {} => TypeOnWire \subseteq PlacementOpportunity
        /\ (TypeOnWire # {} /\ TypeOnWire \subseteq PlacementOpportunity) =>
              IF desc.log[Len(desc.log)].field = "segments_expected"
              THEN /\ Exhausted
                   /\ Earlier(desc.val)
                          = Earlier(SegmentationDescriptor_from_bytes(
                                        BitString(input \o <<7, 9>>), <<>>).val)
              ELSE /\ "sub_segment_num" \in FieldsRead
                   /\ \A i \in 1..Len(desc.log) :
                         desc.log[i].field \in SubSegmentFields =>
                             desc.val.dict["_" \o desc.log[i].field]
                                 = uint(input, desc.log[i].at, 8)
        /\ (TypeOnWire # {} /\ TypeOnWire \cap PlacementOpportunity = {}) =>
              /\ FieldsRead \cap SubSegmentFields = {}
              /\ DOMAIN desc.val.dict
                     \cap {"_sub_segment_num", "_sub_segments_expected"} = {}

\* a placement opportunity whose body ends behind segments_expected
C18_Witness ==
    /\ desc # Pending
    /\ desc.log # <<>>
    /\ desc.err = NoError
    /\ TypeOnWire = {PROVIDER_PLACEMENT_OPPORTUNITY_END}
    /\ desc.log[Len(desc.log)].field = "segments_expected"
    /\ Exhausted

\* another type with bytes behind segments_expected, which stay unread
C18_WitnessOther ==
    /\ desc # Pending
    /\ desc.log # <<>>
    /\ TypeOnWire = {16}
    /\ ~Exhausted

\* C19 as stated: an input that carries bytes beyond the declared section,
\* more than 3 + section_length of them in all, is detected by the decode and
\* not accepted as if those bytes were absent.
C19_AsStated ==
    (result # Pending /\ Len(input) >= 3 /\ Len(input) > DeclaredEnd(input)) =>
        result.err # NoError

\* C19, as amended: from_bytes does not look at what follows the
\* section_length bytes it slices, so a byte appended to an input that
\* decodes is accepted, the section returned being the one of the input
\* without it.
C19_TrailingAccepted ==
    (Derived("append") /\ origResult.err = NoError) =>
        /\ Len(input) > DeclaredEnd(input)
        /\ result.err = NoError
        /\ result.val = origResult.val

\* a byte appended to a section with its descriptors, and accepted
C19_Witness ==
    /\ Derived("append")
    /\ origResult.err = NoError
    /\ result.err = NoError
    /\ result.val.dict["_descriptors"] # <<>>
    /\ Len(input) = DeclaredEnd(input) + 1

\* the bytes that differ between the input and the one it was derived from
\* all lie behind the first 3 + section_length bytes
AgreeOnSection ==
    /\ orig # None
    /\ result # Pending
    /\ Len(orig[1].buf) >= 3
    /\ LET end == DeclaredEnd(orig[1].buf)
           how == orig[1].how
       IN  CASE how.kind = "append" -> Len(orig[1].buf) >= end
             [] how.kind = "set" -> how.at > end
             [] how.kind = "flip" -> how.at >= 8 * end
             [] how.kind = "cut" -> how.at >= end

\* C20: behind section_length every read stays within the section_length
\* bytes that follow it, so that the outcome of the decode, the section or
\* the error, depends on the first 3 + section_length bytes alone: two inputs
\* that agree on them end the same way and on the same reads, whatever
\* follows.
C20_SectionOnly ==
    /\ AgreeOnSection => result = origResult
    /\ result # Pending =>
          \A s \in ReadsOf("section_bitarray") :
              /\ result.log[s].at = 24
              /\ result.log[s].at + result.log[s].bits = 8 * DeclaredEnd(input)
              /\ \A i \in Reads :
                    i > s => result.log[i].at + result.log[i].bits
                                 <= 8 * DeclaredEnd(input)

\* a byte behind the section given another value, the section decoding as before
C20_Witness ==
    /\ AgreeOnSection
    /\ orig[1].how.kind = "set"
    /\ input # orig[1].buf
    /\ result.err = NoError
    /\ result.val.dict["_descriptors"] # <<>>

\* C21 as stated: the sequence SegmentationDescriptor.components or
\* SpliceInfoSection.descriptors returns is a frozen value or a copy, so that
\* appending to it, removing from it or replacing an element of it leaves
\* every later read of the accessor and the outcome of equality as they were.
C21_AccessorsFrozen ==
    cmp # Idle =>
        /\ cmp[1].after = cmp[1].before
        /\ cmp[1].eq_after = cmp[1].eq_before

\* C21 for descriptors alone, which hands out a copy
C21_DescriptorsCopied ==
    (cmp # Idle /\ got[1].owner = 0) =>
        /\ cmp[1].after = cmp[1].before
        /\ cmp[1].eq_after = cmp[1].eq_before
        /\ got[1].out.val[1].items # cmp[1].after.val[1].items

\* a component appended to the list components returned: the descriptor has
\* it, and the section no longer equals a second decode of its input
C21_Witness ==
    /\ cmp # Idle
    /\ got[1].owner > 0
    /\ orig[1].how.kind = "append"
    /\ cmp[1].after.val[1].items = got[1].out.val[1].items
    /\ cmp[1].after # cmp[1].before
    /\ cmp[1].eq_before = "True"
    /\ cmp[1].eq_after = "False"

\* the iterations of the component loop that the read of component_count,
\* the c-th read, was followed by
ComponentIterations(c) == {i \in Within(c) : result.log[i].field = "tag"}

\* the decode left the component loop behind it
PastComponents(c) ==
    \E i \in Within(c) : result.log[i].field = "segmentation_upid_type"

\* C22: from_bytes ends on every input, in a section or in an error: an
\* iteration of the descriptor loop starts inside the region of
\* descriptor_loop_length bytes and at least 16 bits behind the one before,
\* so that there are no more iterations than the region has byte pairs (the
\* last may fail on a single byte), and the component loop goes round
\* component_count times, or fewer when a read fails.
C22_Terminates ==
    result # Pending =>
        /\ (result.err = NoError) # (result.val = None)
        /\ \A l \in ReadsOf("descriptor_loop_bitarray") :
              LET iterations == ReadsOf("splice_descriptor_tag")
              IN  /\ \A t \in iterations :
                        /\ result.log[l].at <= result.log[t].at
                        /\ result.log[t].at < result.log[l].at + result.log[l].bits
                        /\ \A u \in iterations :
                              u > t => result.log[u].at >= result.log[t].at + 16
                  /\ 16 * Cardinality(iterations) <= result.log[l].bits + 8
                  /\ result.err = NoError =>
                        16 * Cardinality(iterations) <= result.log[l].bits
        /\ \A c \in ReadsOf("component_count") :
              LET component_count == uint(input, result.log[c].at, 8)
              IN  IF PastComponents(c)
                  THEN Cardinality(ComponentIterations(c)) = component_count
                  ELSE /\ Cardinality(ComponentIterations(c)) <= component_count
                       /\ result.err # NoError

\* a component_count beyond the components that are there: the loop ends in
\* an error on the first read that fails
C22_Witness ==
    /\ result # Pending
    /\ result.err # NoError
    /\ \E c \in ReadsOf("component_count") :
          /\ ~PastComponents(c)
          /\ ComponentIterations(c) # {}
          /\ Cardinality(ComponentIterations(c)) < uint(input, result.log[c].at, 8)

\* the attribute of the decoded section, of its command, of its k-th descriptor
Section(attr) == result.val.dict[attr]
CommandOf(attr) == result.val.dict["_splice_command"][1].dict[attr]
Descriptor(k) == result.val.dict["_descriptors"][k]

\* the cue of the tag is the one of test_sample_1, and was decoded
Sample1Decoded ==
    /\ got # Idle
    /\ got[1].err = NoError
    /\ got[1].val[1].CUE = Sample1
    /\ result # Pending

\* C23: the cue /DBfAAD6i73N...IDU= decodes to pts_adjustment 4203462093
\* (0xFA8B BDCD), tier 0xFFF, a TimeSignal that is not immediate with pts_time
\* 2573164087 (0x995F 5E37), and two descriptors, the first a
\* SegmentationDescriptor of type PROVIDER_PLACEMENT_OPPORTUNITY_START with
\* segmentation_event_id 2801467035 (0xA6FA FE9B), the three flags true and
\* segmentation_duration 25659009 (0x187 8681).
C23_Sample1 ==
    Sample1Decoded =>
        /\ result.err = NoError
        /\ Section("_pts_adjustment") = <<64139, 48589>>
        /\ Section("_tier") = 4095
        /\ Section("_splice_command_type") = TIME_SIGNAL
        /\ result.val.dict["_splice_command"][1].class = "TimeSignal"
        /\ CommandOf("_immediate") = FALSE
        /\ CommandOf("_pts_time") = Some(<<39263, 24119>>)
        /\ Len(Section("_descriptors")) = 2
        /\ Descriptor(1).class = "SegmentationDescriptor"
        /\ getattr(Descriptor(1), "segmentation_type")
               = Returned(Some(PROVIDER_PLACEMENT_OPPORTUNITY_START))
        /\ getattr(Descriptor(1), "segmentation_event_id") = Returned(<<42746, 65179>>)
        /\ getattr(Descriptor(1), "program_segmentation_flag") = Returned(TRUE)
        /\ getattr(Descriptor(1), "segmentation_duration_flag") = Returned(TRUE)
        /\ getattr(Descriptor(1), "delivery_not_restricted_flag") = Returned(TRUE)
        /\ getattr(Descriptor(1), "segmentation_duration") = Returned(<<391, 34433>>)

C23_Witness ==
    /\ Sample1Decoded
    /\ StartsWith(input, "#EXT-X-SCTE35:TYPE=0x34,CUE=/DBfAAD6i73N")
    /\ Len(standard_b64decode(Sample1)) = 98
    /\ result.val # None

\* the places of the text where "CUE=" stands
CuePlaces == {p \in 1..(Len(input) - 3) : SubSeq(input, p, p + 3) = "CUE="}

\* the text has no CUE attribute, or has one without a value: what follows
\* "CUE=" and a quotation mark, if any, is no Base64 character
NoCueValue ==
    \A p \in CuePlaces :
        LET from == IF p + 4 <= Len(input) /\ Char(input, p + 4) = "\"" THEN p + 5
                    ELSE p + 4
        IN  from > Len(input) \/ Char(input, from) \notin Base64Chars

\* the text has no line break but one that ends it
SingleLine == LineBreaks(input) \subseteq {Len(input)}

\* C24 as stated: tag_components raises NotAnHLSCueTag for a text that does
\* not start with "#EXT-X-SCTE35:", whether it has a CUE attribute or not,
\* and MissingCueException for a text that starts with it and has no CUE
\* attribute or an empty CUE value.
C24_AsStated ==
    got # Idle =>
        /\ ~StartsWith(input, HLS_TAG) => got[1].err = "NotAnHLSCueTag"
        /\ (StartsWith(input, HLS_TAG) /\ NoCueValue) =>
              got[1].err = "MissingCueException"

\* C24, as amended: tag_components raises NotAnHLSCueTag for a text that
\* does not start with "#EXT-X-SCTE35:", whether it has a CUE attribute or
\* not, and also for one that starts with it and has a line break ahead of
\* its last character; it raises MissingCueException for a text that starts
\* with it, has no such line break, and has no CUE attribute or an empty CUE
\* value.
C24_TagComponents ==
    got # Idle =>
        /\ ~StartsWith(input, HLS_TAG) => got[1].err = "NotAnHLSCueTag"
        /\ (StartsWith(input, HLS_TAG) /\ ~SingleLine) => got[1].err = "NotAnHLSCueTag"
        /\ (StartsWith(input, HLS_TAG) /\ SingleLine /\ NoCueValue) =>
              got[1].err = "MissingCueException"

\* a text without the tag name and without a CUE attribute
C24_Witness ==
    /\ got # Idle
    /\ input = "EXT-X-SCTE35:TYPE=0x34,"
    /\ got[1].err = "NotAnHLSCueTag"

\* a text with the tag name and an empty CUE attribute
C24_WitnessEmpty ==
    /\ got # Idle
    /\ input = "#EXT-X-SCTE35:TYPE=0x34,CUE="
    /\ got[1].err = "MissingCueException"

\* a field of the layout: its name and its width in bits
Field(name, bits) == [field |-> name, bits |-> bits]

\* the layout of a segmentation descriptor body that is not cancelled, as
\* its flags, its component_count and its UPID length give it
Layout ==
    LET psf == BitAt(input, 72) = 1
        sdf == BitAt(input, 73) = 1
        dnr == BitAt(input, 74) = 1
        component_count == IF psf THEN 0 ELSE uint(input, 80, 8)
        upid_at == 80 + (IF psf THEN 0 ELSE 8 + 48 * component_count)
                      + (IF sdf THEN 40 ELSE 0)
    IN  << Field("descriptor_identifier", 32), Field("segmentation_event_id", 32),
           Field("segmentation_event_cancel_indicator", 1), Field("reserved", 7),
           Field("program_segmentation_flag", 1), Field("segmentation_duration_flag", 1),
           Field("delivery_not_restricted_flag", 1) >>
        \o (IF dnr THEN << Field("reserved", 5) >>
            ELSE << Field("web_delivery_allowed_flag", 1),
                    Field("no_regional_blackout_flag", 1),
                    Field("archive_allowed_flag", 1), Field("device_restrictions", 2) >>)
        \o (IF psf THEN << >>
            ELSE << Field("component_count", 8) >>
                 \o [i \in 1..(3 * component_count) |->
                        CASE i % 3 = 1 -> Field("tag", 8)
                          [] i % 3 = 2 -> Field("reserved", 7)
                          [] i % 3 = 0 -> Field("pts_offset", 33)])
        \o (IF sdf THEN << Field("segmentation_duration", 40) >> ELSE << >>)
        \o << Field("segmentation_upid_type", 8), Field("segmentation_upid_length", 8),
              Field("segmentation_upid_bytes", 8 * uint(input, upid_at + 8, 8)),
              Field("segmentation_type", 8), Field("segment_num", 8),
              Field("segments_expected", 8) >>

\* the reads of the decode are those of the layout, one behind the other
\* from bit 0, with nothing but the sub-segment numbers behind them
ReadInOrder ==
    /\ Len(desc.log) >= Len(Layout)
    /\ desc.log[1].at = 0
    /\ \A i \in 1..Len(desc.log) :
          /\ i > 1 => desc.log[i].at = desc.log[i - 1].at + desc.log[i - 1].bits
          /\ IF i <= Len(Layout)
             THEN Field(desc.log[i].field, desc.log[i].bits) = Layout[i]
             ELSE desc.log[i].field \in SubSegmentFields

\* the reads of the decoded descriptor that have the name given, in order
Positions(name) == {i \in 1..Len(desc.log) : desc.log[i].field = name}

\* the value the bits of the i-th read stand for
Unsigned(i) == uint(input, desc.log[i].at, desc.log[i].bits)

\* the k-th read of those at the places given
Kth(places, k) == CHOOSE i \in places : Cardinality({j \in places : j <= i}) = k

\* the field was read once, and the attribute has the value of its bits
Holds(name, attr, value(_)) ==
    \A i \in Positions(name) :
        /\ Cardinality(Positions(name)) = 1
        /\ desc.val.dict[attr] = value(i)

BodyAt(d) == result.log[d].at
TagOf(d) == uint(input, result.log[d - 2].at, 8)
PlaceOf(d) == Cardinality({e \in ReadsOf("descriptor_bitarray") : e <= d})

\* the body read as the d-th read has the 32 bits of an identifier, which
\* are not those of "CUEI"
NotCuei(d) ==
    /\ TagOf(d) \in {AVAIL_DESCRIPTOR, DTMF_DESCRIPTOR, SEGMENTATION_DESCRIPTOR}
    /\ result.log[d].bits >= 32
    /\ wide(input, BodyAt(d), 32) # <<17237, 17737>>

\* C26: the decoders of AvailDescriptor, DtmfDescriptor and
\* SegmentationDescriptor fail when the first 32 bits of the body are not
\* 0x43554549, "CUEI"; otherwise AvailDescriptor has the next 32 bits as
\* provider_avail_id, and DtmfDescriptor the 8-bit preroll and the
\* dtmf_count (0..7) bytes behind the 3-bit dtmf_count and the 5 bits that
\* follow it, which have to be 0b11111.
C26_Identifier ==
    result # Pending =>
        \A d \in ReadsOf("descriptor_bitarray") :
            /\ NotCuei(d) =>
                  /\ result.err = "Exception"
                  /\ result.val = None
                  /\ result.log[Len(result.log)]
                         = [field |-> "descriptor_identifier", at |-> BodyAt(d), bits |-> 32]
            /\ (~NotCuei(d) /\ TagOf(d) = DTMF_DESCRIPTOR /\ result.log[d].bits >= 48
                    /\ uint(input, BodyAt(d) + 43, 5) # 31) =>
                  result.err = "ReservedBitsException"
            /\ (result.err = NoError /\ TagOf(d) = AVAIL_DESCRIPTOR) =>
                  result.val.dict["_descriptors"][PlaceOf(d)]
                      = AvailDescriptor(wide(input, BodyAt(d) + 32, 32))
            /\ (result.err = NoError /\ TagOf(d) = DTMF_DESCRIPTOR) =>
                  /\ uint(input, BodyAt(d) + 43, 5) = 31
                  /\ result.val.dict["_descriptors"][PlaceOf(d)]
                         = DtmfDescriptor(uint(input, BodyAt(d) + 32, 8),
                                          bytes(input, BodyAt(d) + 48,
                                                uint(input, BodyAt(d) + 40, 3)))
                  /\ 48 + 8 * uint(input, BodyAt(d) + 40, 3) <= result.log[d].bits

\* a bit of the identifier of a DTMF descriptor flipped
C26_Witness ==
    /\ Derived("flip")
    /\ origResult.err = NoError
    /\ result.err = "Exception"
    /\ \E d \in ReadsOf("descriptor_bitarray") :
          /\ NotCuei(d)
          /\ TagOf(d) = DTMF_DESCRIPTOR
          /\ orig[1].how.at >= BodyAt(d)
          /\ orig[1].how.at < BodyAt(d) + 32

\* the attributes a decoded descriptor has of the two sub-segment numbers
SubSegmentAttributes ==
    DOMAIN desc.val.dict \cap {"_sub_segment_num", "_sub_segments_expected"}

\* C27 as stated: a decoded segmentation descriptor has sub_segment_num and
\* sub_segments_expected both or has neither, also when exactly one byte is
\* left behind segments_expected.
C27_BothOrNeither ==
    (desc # Pending /\ desc.log # <<>> /\ desc.err = NoError) =>
        SubSegmentAttributes \in {{}, {"_sub_segment_num", "_sub_segments_expected"}}

\* one byte behind segments_expected of a placement opportunity: the
\* descriptor has sub_segment_num and no sub_segments_expected
C27_Witness ==
    /\ desc # Pending
    /\ desc.log # <<>>
    /\ desc.err = NoError
    /\ desc.log[Len(desc.log)].field = "sub_segment_num"
    /\ desc.log[Len(desc.log)].at + 8 = 8 * Len(input)
    /\ SubSegmentAttributes = {"_sub_segment_num"}

\* the 12 bits of splice_command_length, behind the 92 bits of the header
\* and of the fields ahead of it, are all ones
CommandLengthAllOnes == Len(input) >= 13 /\ uint(input, 92, 12) = AllOnes

\* C28: splice_command_length is taken as a number of bytes and the section
\* has at most 4095 of them, 11 of which are read ahead of the command, so
\* that no input whose splice_command_length is 0xFFF decodes: the command
\* is never sliced, and the decode fails.
C28_AllOnesLength ==
    (result # Pending /\ CommandLengthAllOnes) =>
        /\ result.err # NoError
        /\ result.val = None
        /\ ReadsOf("splice_command_bitarray") = {}
        /\ (uint(input, 104, 8) \in SpliceCommandType /\ Len(input) >= DeclaredEnd(input))
               => result.err = "ReadError"

\* the longest section there is, on an input that holds all of it and more
C28_Witness ==
    /\ result # Pending
    /\ CommandLengthAllOnes
    /\ DeclaredEnd(input) = 3 + MaxSectionLength
    /\ Len(input) > DeclaredEnd(input)
    /\ uint(input, 104, 8) = TIME_SIGNAL
    /\ result.err = "ReadError"
    /\ result.log[Len(result.log)].field = "splice_command_type"

\* what is wrong with the input first in wire order, by the error it is
\* reported with
FirstFailure ==
    IF uint(input, 0, 8) # 252 THEN "InvalidTableIdException"
    ELSE IF uint(input, 10, 2) # 3 THEN "ReservedBitsException"
    ELSE IF Len(input) < DeclaredEnd(input) THEN "ReadError"
    ELSE IF BitAt(input, 32) = 1 THEN "Exception"
    ELSE IF uint(input, 104, 8) \notin SpliceCommandType THEN "ValueError"
    ELSE IF 11 + uint(input, 92, 12) > uint(input, 12, 12) THEN "ReadError"
    ELSE IF uint(input, 104, 8) # TIME_SIGNAL THEN "NotImplementedException"
    ELSE NoError

\* C29: the checks of the decode are made in wire order and the first that
\* fails gives the error: a wrong table id ahead of wrong reserved bits,
\* wrong reserved bits ahead of a section_length beyond the input, a section
\* that is too short ahead of the encrypted_packet bit, the encrypted_packet
\* bit ahead of an unknown command type, an unknown command type ahead of a
\* splice_command_length beyond the section, and a command that does not fit
\* the section, a short read, ahead of the dispatch on a command that is not
\* implemented.
C29_WireOrder ==
    result # Pending =>
        /\ result.err = FirstFailure
        /\ result.err # NoError => result.val = None

\* everything wrong at once: the table id is what is reported
C29_Witness ==
    /\ result # Pending
    /\ uint(input, 0, 8) # 252
    /\ uint(input, 10, 2) # 3
    /\ Len(input) < DeclaredEnd(input)
    /\ BitAt(input, 32) = 1
    /\ uint(input, 104, 8) \notin SpliceCommandType
    /\ 11 + uint(input, 92, 12) > uint(input, 12, 12)
    /\ result.err = "InvalidTableIdException"

\* a command that is not implemented and does not fit the section: a short read
C29_WitnessShort ==
    /\ result # Pending
    /\ uint(input, 104, 8) = SPLICE_INSERT
    /\ 11 + uint(input, 92, 12) > uint(input, 12, 12)
    /\ result.err = "ReadError"
    /\ result.log[Len(result.log)].field = "splice_command_type"

\* the reads that open a region, or strings of bytes
ByteAligned ==
    {"section_bitarray", "splice_command_bitarray", "descriptor_loop_bitarray",
     "descriptor_bitarray", "segmentation_upid_bytes", "dtmf_string"}

\* the i-th read lies in the region read as the r-th read
Inside(i, r) ==
    /\ result.log[r].at <= result.log[i].at
    /\ result.log[i].at + result.log[i].bits <= result.log[r].at + result.log[r].bits

\* the reads of the command decoder on the command body read as the m-th read
OfCommand(m) ==
    {i \in Reads : i > m /\ \A l \in ReadsOf("descriptor_loop_length") : i < l}

\* the bits the decoder has consumed of the descriptor body read as the d-th
\* read
Consumed(d) ==
    LET ends == {result.log[i].at + result.log[i].bits : i \in Within(d)}
    IN  IF ends = {} THEN 0
        ELSE (CHOOSE e \in ends : \A f \in ends : f <= e) - result.log[d].at

\* C30: in any decode the section body, the command body, the
\* descriptor-loop region, every descriptor body, the UPID bytes and the DTMF
\* string start at a bit offset of the input that is a multiple of 8, no read
\* ends beyond the region it is made in, and a descriptor decoder that
\* succeeds has consumed a whole number of bytes of its slice.
C30_ByteAligned ==
    result # Pending =>
        /\ \A i \in Reads :
              /\ result.log[i].field \in ByteAligned => result.log[i].at % 8 = 0
              /\ result.log[i].at + result.log[i].bits <= 8 * Len(input)
        /\ \A s \in ReadsOf("section_bitarray") :
              \A i \in Reads : i > s => Inside(i, s)
        /\ \A m \in ReadsOf("splice_command_bitarray") :
              \A i \in OfCommand(m) : Inside(i, m)
        /\ \A l \in ReadsOf("descriptor_loop_bitarray") :
              \A i \in Reads : i > l => Inside(i, l)
        /\ \A d \in ReadsOf("descriptor_bitarray") :
              /\ \A i \in Within(d) : Inside(i, d)
              /\ (/\ Sliced(d).tag \in {AVAIL_DESCRIPTOR, DTMF_DESCRIPTOR,
                                        SEGMENTATION_DESCRIPTOR}
                  /\ Decoded(Sliced(d)).err = NoError)
                     => Consumed(d) % 8 = 0

\* a decode with a DTMF string of one character or more behind the fields of
\* another descriptor
C30_Witness ==
    /\ result # Pending
    /\ result.err = NoError
    /\ \E i \in ReadsOf("dtmf_string") :
          /\ result.log[i].bits > 0
          /\ \E d \in ReadsOf("descriptor_bitarray") :
                i \in Within(d) /\ Consumed(d) > 0 /\ result.log[d].at > 0
    /\ Cardinality(ReadsOf("descriptor_bitarray")) >= 2

\* a decode with UPID bytes in a segmentation descriptor
C30_WitnessUpid ==
    /\ result # Pending
    /\ result.err = NoError
    /\ \E i \in ReadsOf("segmentation_upid_bytes") :
          result.log[i].bits > 0 /\ result.log[i].at % 8 = 0

====
